---- MODULE Spec2Model ----
(***************************************************************************)
(* Dungeon Master's Compendium: the SRD rulebook search page               *)
(* (src/pages/02_Rulebook_Search.py).                                      *)
(*                                                                         *)
(* A Python str is a sequence of one-character strings, so that lower(),   *)
(* strip(), re.sub(r'\s+', ' ', .) and the `in` substring test are         *)
(* computed character by character.  A JSON value of a detail record is a  *)
(* tagged record [t, v]; a JSON object (a Python dict) is a TLA+ record    *)
(* whose DOMAIN is the set of keys that are present.                       *)
(***************************************************************************)
EXTENDS Integers, Sequences, FiniteSets, TLC

(***************************************************************************)
(* Bounds of the model.                                                    *)
(***************************************************************************)
\* Longest list of item summaries a category list fetch returns.
MaxItems == 2
\* Longest index handed to the search in SearchSpec.
MaxIdx == 3
\* Longest query enumerated over QueryAlphabet.
MaxQueryLen == 2
\* Number of steps the clock makes in TimedSpec.
MaxTicks == 2

(***************************************************************************)
(* st.cache_data(ttl=3600): the seconds an entry of a cache is kept.  The  *)
(* clock of the model moves in steps of half that time.                    *)
(***************************************************************************)
ttl == 3600

TickSeconds == ttl \div 2

MaxTime == MaxTicks * TickSeconds

(***************************************************************************)
(* Python str operations.                                                  *)
(***************************************************************************)
IsSpace(c) == c \in {" ", "\t", "\n"}

LowerChar(c) ==
    CASE c = "A" -> "a"
      [] c = "B" -> "b"
      [] c = "C" -> "c"
      [] c = "N" -> "n"
      [] c = "U" -> "u"
      [] OTHER -> c

\* str.lower()
Lower(s) == [k \in 1..Len(s) |-> LowerChar(s[k])]

RECURSIVE LStrip(_)
LStrip(s) ==
    IF s # <<>> /\ IsSpace(Head(s)) THEN LStrip(Tail(s)) ELSE s

RECURSIVE RStrip(_)
RStrip(s) ==
    IF s # <<>> /\ IsSpace(s[Len(s)]) THEN RStrip(SubSeq(s, 1, Len(s) - 1)) ELSE s

\* str.strip()
Strip(s) == RStrip(LStrip(s))

\* needle in hay
Contains(hay, needle) ==
    \E k \in 0..(Len(hay) - Len(needle)) :
        SubSeq(hay, k + 1, k + Len(needle)) = needle

\* re.sub(r'\s+', ' ', s): every maximal run of whitespace becomes one space
RECURSIVE CollapseWs(_)
CollapseWs(s) ==
    IF s = <<>> THEN <<>>
    ELSE IF IsSpace(Head(s))
         THEN <<" ">> \o CollapseWs(LStrip(Tail(s)))
         ELSE <<Head(s)>> \o CollapseWs(Tail(s))

\* " ".join(parts)
RECURSIVE JoinSp(_)
JoinSp(parts) ==
    IF parts = <<>> THEN <<>>
    ELSE IF Len(parts) = 1 THEN parts[1]
    ELSE parts[1] \o <<" ">> \o JoinSp(Tail(parts))

\* filter(None, parts): the empty strings are dropped
FilterNonEmpty(parts) == SelectSeq(parts, LAMBDA p : p # <<>>)

(***************************************************************************)
(* JSON values of a detail record.                                         *)
(***************************************************************************)
JStr(s) == [t |-> "str", v |-> s]
JNull == [t |-> "null", v |-> <<>>]
JList(xs) == [t |-> "list", v |-> xs]
JObj(r) == [t |-> "obj", v |-> r]

\* the dict {}
EmptyDict == <<>>

\* dict.get(key, default)
Get(d, key, default) == IF key \in DOMAIN d THEN d[key] ELSE default

\* str(x) of a JSON value; a str is itself, None is "None", [] is "[]", {} is "{}"
StrOf(x) ==
    CASE x.t = "str" -> x.v
      [] x.t = "null" -> <<"N", "o", "n", "e">>
      [] x.t = "list" /\ x.v = <<>> -> <<"[", "]">>
      [] x.t = "obj" /\ DOMAIN x.v = {} -> <<"{", "}">>

(***************************************************************************)
(* The categories, in the declaration order of CATEGORIES_TO_FETCH.        *)
(***************************************************************************)
\* mutant: Monsters declared before Spells
CATEGORIES_TO_FETCH_MonstersFirst ==
    <<"Monsters", "Spells", "Magic Items", "Equipment", "Conditions">>

CATEGORIES_TO_FETCH ==
    <<"Spells", "Monsters", "Magic Items", "Equipment", "Conditions">>

total_categories == Len(CATEGORIES_TO_FETCH)

CategoryNames == {CATEGORIES_TO_FETCH[k] : k \in 1..total_categories}

(***************************************************************************)
(* Deriving search_text from a detail record.  Every step either appends   *)
(* strings to search_text_parts or raises (AttributeError, TypeError); the *)
(* first raise ends the derivation.                                        *)
(***************************************************************************)
Raised == [raised |-> TRUE, parts |-> <<>>]

Ok(parts) == [raised |-> FALSE, parts |-> parts]

\* a then b, in this order
Then(a, b) ==
    IF a.raised \/ b.raised THEN Raised ELSE Ok(a.parts \o b.parts)

\* x.lower(): only a str has it
LowerOf(x) == IF x.t = "str" THEN Ok(<<Lower(x.v)>>) ELSE Raised

\* item_detail.get(key, {}).get("name", "").lower()
NestedNameLower(d, key) ==
    LET o == Get(d, key, JObj(EmptyDict))
    IN  IF o.t # "obj" THEN Raised
        ELSE LowerOf(Get(o.v, "name", JStr(<<>>)))

\* Spells: the first paragraph of desc, or str(desc) when desc is no non-empty list
SpellDescPart(d) ==
    LET desc_list == Get(d, "desc", JList(<<>>))
    IN  IF desc_list.t = "list" /\ desc_list.v # <<>>
        THEN LowerOf(desc_list.v[1])
        ELSE Ok(<<Lower(StrOf(Get(d, "desc", JStr(<<>>))))>>)

\* " ".join(desc_data) if isinstance(desc_data, list) else str(desc_data), lowered
JoinedDescPart(d) ==
    LET desc_data == Get(d, "desc", JList(<<>>))
    IN  IF desc_data.t = "list"
        THEN IF \A k \in 1..Len(desc_data.v) : desc_data.v[k].t = "str"
             THEN Ok(<<Lower(JoinSp([k \in 1..Len(desc_data.v) |-> desc_data.v[k].v]))>>)
             ELSE Raised
        ELSE Ok(<<Lower(StrOf(desc_data))>>)

\* for ability in abilities_list: name and desc of every ability that is a dict
RECURSIVE AbilityParts(_)
AbilityParts(abilities) ==
    IF abilities = <<>> THEN Ok(<<>>)
    ELSE LET ability == Head(abilities)
             here == IF ability.t = "obj"
                     THEN Then(LowerOf(Get(ability.v, "name", JStr(<<>>))),
                               LowerOf(Get(ability.v, "desc", JStr(<<>>))))
                     ELSE Ok(<<>>)
         IN  Then(here, AbilityParts(Tail(abilities)))

\* one key of special_abilities, actions, legendary_actions, reactions
AbilityKeyParts(d, key) ==
    LET abilities_list == Get(d, key, JList(<<>>))
    IN  IF abilities_list.t = "list" THEN AbilityParts(abilities_list.v)
        ELSE Ok(<<>>)

MonsterParts(d) ==
    Then(LowerOf(Get(d, "type", JStr(<<>>))),
    Then(LowerOf(Get(d, "size", JStr(<<>>))),
    Then(LowerOf(Get(d, "alignment", JStr(<<>>))),
    Then(AbilityKeyParts(d, "special_abilities"),
    Then(AbilityKeyParts(d, "actions"),
    Then(AbilityKeyParts(d, "legendary_actions"),
         AbilityKeyParts(d, "reactions")))))))

UnknownName == <<"U", "n", "k", "n", "o", "w", "n", " ", "N", "a", "m", "e">>

\* name = item_detail.get("name", "Unknown Name")
NameOf(d) == Get(d, "name", JStr(UnknownName))

\* mutant: search_text_parts starts empty, the name is not put in
SearchTextParts_NoName(category_name, d) ==
    IF LowerOf(NameOf(d)).raised THEN Raised
    ELSE CASE category_name = "Spells" ->
                  Then(SpellDescPart(d), NestedNameLower(d, "school"))
           [] category_name = "Monsters" -> MonsterParts(d)
           [] category_name \in {"Magic Items", "Equipment"} ->
                  Then(JoinedDescPart(d), NestedNameLower(d, "equipment_category"))
           [] category_name = "Conditions" -> JoinedDescPart(d)
           [] OTHER -> Ok(<<>>)

\* search_text_parts of the item, lines 87-112
SearchTextParts(category_name, d) ==
    Then(LowerOf(NameOf(d)),
         CASE category_name = "Spells" ->
                  Then(SpellDescPart(d), NestedNameLower(d, "school"))
           [] category_name = "Monsters" -> MonsterParts(d)
           [] category_name \in {"Magic Items", "Equipment"} ->
                  Then(JoinedDescPart(d), NestedNameLower(d, "equipment_category"))
           [] category_name = "Conditions" -> JoinedDescPart(d)
           [] OTHER -> Ok(<<>>))

\* mutant: the parts are joined, and neither collapsed nor stripped
NormalizeSearchText_JoinOnly(parts) == JoinSp(FilterNonEmpty(parts))

\* lines 114-115: join the non-empty parts, collapse whitespace, strip
NormalizeSearchText(parts) == Strip(CollapseWs(JoinSp(FilterNonEmpty(parts))))

\* the dict appended to all_srd_items, lines 117-122
MakeEntry(category_name, d) ==
    [name |-> NameOf(d).v,
     category |-> category_name,
     search_text |-> NormalizeSearchText(SearchTextParts(category_name, d).parts),
     raw_data |-> d]

\* `if item_detail:` a detail that is None (absent) or {} is falsy
Absent == [absent |-> TRUE]

\* mutant: the item is taken whatever the fetch returned
Truthy_Always(item_detail) == TRUE

Truthy(item_detail) == item_detail # Absent /\ DOMAIN item_detail # {}

(***************************************************************************)
(* The search, inline in the page script (lines 156-198, 341-344).         *)
(***************************************************************************)
\* mutant: the query is lowercased and not stripped
NormalizeQuery_NoStrip(search_query) == Lower(search_query)

\* query = search_query.lower().strip()
NormalizeQuery(search_query) == Strip(Lower(search_query))

\* is_name_match = query in item_name_lower
IsNameMatch(item_wrapper, query) == Contains(Lower(item_wrapper.name), query)

\* mutant: every entry that is no name match counts as a text match
IsTextMatch_Always(item_wrapper, query) == TRUE

\* query in item_search_text
IsTextMatch(item_wrapper, query) == Contains(item_wrapper.search_text, query)

\* the first loop, lines 171-181: the two tiers, each in index order
NameMatches(data, query) ==
    SelectSeq(data, LAMBDA it : IsNameMatch(it, query))

TextMatches(data, query) ==
    SelectSeq(data, LAMBDA it : ~IsNameMatch(it, query) /\ IsTextMatch(it, query))

\* mutant: the key is the name alone
UniqueKey_NameOnly(item) == <<item.name>>

\* unique_key = (item.get("name"), item.get("category"))
UniqueKey(item) == <<item.name, item.category>>

\* mutant: every item is appended, seen before or not
AddUnique_NoDedup(acc, items) ==
    [final_results |-> acc.final_results \o items,
     added |-> acc.added \cup {UniqueKey(items[k]) : k \in 1..Len(items)}]

\* one tier's loop, lines 186-190 and 192-196, on [final_results, added_names_categories]
RECURSIVE AddUnique(_, _)
AddUnique(acc, items) ==
    IF items = <<>> THEN acc
    ELSE LET item == Head(items)
             next == IF UniqueKey(item) \notin acc.added
                     THEN [final_results |-> Append(acc.final_results, item),
                           added |-> acc.added \cup {UniqueKey(item)}]
                     ELSE acc
         IN  AddUnique(next, Tail(items))

\* mutant: the text matches are put before the name matches
FinalResults_TextFirst(data, query) ==
    AddUnique(AddUnique([final_results |-> <<>>, added |-> {}],
                        TextMatches(data, query)),
              NameMatches(data, query)).final_results

\* results of a non-blank query, lines 168-198
FinalResults(data, query) ==
    AddUnique(AddUnique([final_results |-> <<>>, added |-> {}],
                        NameMatches(data, query)),
              TextMatches(data, query)).final_results

\* mutant: the page does not look whether the loaded data is empty
RenderPage_NoEmptyCheck(data, search_query) ==
    IF search_query = <<>> THEN [signal |-> "none", results |-> <<>>]
    ELSE LET query == NormalizeQuery(search_query)
         IN  IF query = <<>> THEN [signal |-> "enter_term", results |-> <<>>]
             ELSE LET results == FinalResults(data, query)
                  IN  IF results # <<>>
                      THEN [signal |-> "results", results |-> results]
                      ELSE [signal |-> "zero_results", results |-> <<>>]

\* mutant: a search without a match shows the prompt for a search term
RenderPage_ZeroAsPrompt(data, search_query) ==
    IF data = <<>> THEN [signal |-> "unavailable", results |-> <<>>]
    ELSE IF search_query = <<>> THEN [signal |-> "none", results |-> <<>>]
    ELSE LET query == NormalizeQuery(search_query)
         IN  IF query = <<>> THEN [signal |-> "enter_term", results |-> <<>>]
             ELSE LET results == FinalResults(data, query)
                  IN  IF results # <<>>
                      THEN [signal |-> "results", results |-> results]
                      ELSE [signal |-> "enter_term", results |-> <<>>]

\* One run of the page below the load: what it shows for the loaded data and
\* the text of the search box.
\*   "unavailable"  st.error, line 157        "none"          nothing below the box
\*   "enter_term"   st.info, line 344         "zero_results"  st.info, line 342
\*   "results"      the result list, line 201
RenderPage(data, search_query) ==
    IF data = <<>> THEN [signal |-> "unavailable", results |-> <<>>]
    ELSE IF search_query = <<>> THEN [signal |-> "none", results |-> <<>>]
    ELSE LET query == NormalizeQuery(search_query)
         IN  IF query = <<>> THEN [signal |-> "enter_term", results |-> <<>>]
             ELSE LET results == FinalResults(data, query)
                  IN  IF results # <<>>
                      THEN [signal |-> "results", results |-> results]
                      ELSE [signal |-> "zero_results", results |-> <<>>]

(***************************************************************************)
(* The remote service: per category the detail records behind its list     *)
(* endpoint, item k of category c at the url <<c, k>>.                     *)
(***************************************************************************)
\* a spell with a description paragraph and a school
DSpell ==
    [name |-> JStr(<<"A", "b">>),
     desc |-> JList(<<JStr(<<"B">>), JStr(<<"a", "a">>)>>),
     school |-> JObj([name |-> JStr(<<"a">>)])]

\* a record with a name only
DPlain == [name |-> JStr(<<"b">>)]

\* the same name as DPlain, another description
DTwin == [name |-> JStr(<<"b">>), desc |-> JList(<<JStr(<<"a">>)>>)]

\* a name with leading whitespace and a run of whitespace
DSpaced == [name |-> JStr(<<" ", "a", "\t", " ", "B">>)]

\* a record without a name, its desc a plain string
DNoName == [desc |-> JStr(<<"a">>)]

\* a record whose name is null
DNullName == [name |-> JNull, desc |-> JList(<<>>)]

DMonster ==
    [name |-> JStr(<<"B">>),
     type |-> JStr(<<"a">>),
     actions |-> JList(<<JObj([name |-> JStr(<<"A", "b">>), desc |-> JStr(<<"b">>)])>>),
     reactions |-> JNull]

DItem ==
    [name |-> JStr(<<"B", "a">>),
     desc |-> JList(<<JStr(<<"a">>), JStr(<<"b">>)>>),
     equipment_category |-> JObj([name |-> JStr(<<"A">>)])]

\* a service whose records are all well-formed
CatalogA ==
    [c \in CategoryNames |->
        CASE c = "Spells" -> <<DSpell, DTwin, DPlain>>
          [] c = "Monsters" -> <<DMonster>>
          [] c = "Magic Items" -> <<DItem>>
          [] c = "Equipment" -> <<DPlain>>
          [] c = "Conditions" -> <<DTwin>>]

\* a service with an empty object, an empty list, odd names and a null name
CatalogB ==
    [c \in CategoryNames |->
        CASE c = "Spells" -> <<DSpaced, EmptyDict, DPlain>>
          [] c = "Monsters" -> <<DNoName>>
          [] c = "Magic Items" -> <<>>
          [] c = "Equipment" -> <<DNullName>>
          [] c = "Conditions" -> <<DPlain, DTwin, DPlain>>]

Min(a, b) == IF a < b THEN a ELSE b

\* the first MaxItems items of every list
Truncated(catalog) ==
    [c \in CategoryNames |-> SubSeq(catalog[c], 1, Min(Len(catalog[c]), MaxItems))]

Remotes == {Truncated(CatalogA), Truncated(CatalogB)}

\* a small service for the runs over several ttl: two categories with items,
\* two with an empty list, and the null name in Equipment
CatalogT ==
    [c \in CategoryNames |->
        CASE c = "Spells" -> <<DTwin>>
          [] c = "Monsters" -> <<>>
          [] c = "Magic Items" -> <<>>
          [] c = "Equipment" -> <<DNullName>>
          [] c = "Conditions" -> <<DPlain>>]

Urls == CategoryNames \X (1..MaxItems)

(***************************************************************************)
(* State.                                                                  *)
(***************************************************************************)
VARIABLES
    remote,             \* what the remote service holds
    pc,                 \* "idle", "list", "detail", "finish", "render", "crashed"
    i,                  \* position in CATEGORIES_TO_FETCH (1-based), 0 outside a build
    j,                  \* position in item_list (1-based), 0 outside the detail loop
    item_list,          \* the list of the current category
    all_srd_items,      \* the list the build appends to
    progress,           \* the categories of the "Fetching list" progress texts
    warnings,           \* categories of the st.warning calls of the build
    errors,             \* categories of the st.error calls, "load" for line 141
    list_cache,         \* st.cache_data of fetch_category_list
    detail_cache,       \* st.cache_data of fetch_item_details
    index_cache,        \* st.cache_data of load_and_combine_srd_data_from_api
    srd_combined_data,  \* the index the page holds
    search_query,       \* the text of the search box
    signal,             \* what the last run of the page showed
    results,            \* the result list of the last run
    now,                \* the clock, in seconds
    fetch_log,          \* the fetch calls of this run: key, result, network or cache
    previous,           \* what the run before this one read and showed
    in_flight,          \* the keys of the requests issued and not yet answered
    characters_data,    \* session_state.characters_data, in insertion order
    current_char_id,    \* session_state.current_char_id
    editing_char,       \* session_state.editing_char
    dropdown,           \* the position the Select Character box returned last
    sheet_pc,           \* "idle", or "rerun" after st.rerun() of the sheet page
    next_id,            \* the number of uuid4 values drawn so far, plus one
    chosen,             \* doc_id of the entry the user chose in this run
    save_arg,           \* the argument of the last direct call of save_character
    drawn,              \* the arguments of the derived-stat functions
    derived,            \* what the derived-stat functions returned for them
    messages,           \* session_state.messages of the chat page
    model,              \* the model object of the chat page, or "None"
    chat_event          \* what the last run of the chat page was started by

buildVars == <<i, j, item_list, all_srd_items, progress, warnings, errors>>

cacheVars == <<list_cache, detail_cache, index_cache>>

pageVars == <<srd_combined_data, search_query, signal, results>>

\* the state of the rulebook search page
rulebookVars ==
    <<remote, pc, buildVars, cacheVars, pageVars, now, fetch_log, previous, in_flight>>

\* the state of the character sheet page
sheetVars ==
    <<characters_data, current_char_id, editing_char, dropdown, sheet_pc, next_id,
      chosen, save_arg>>

\* the arguments and results of the derived-stat functions
statVars == <<drawn, derived>>

\* the state of the chat page
chatVars == <<messages, model, chat_event>>

\* the pages other than the rulebook search
otherPages == <<sheetVars, statVars, chatVars>>

vars == <<rulebookVars, otherPages>>

\* line 85: current_char_id is None
NoId == 0

\* lines 81-87: initialize_character_storage, in the first run of the page
SheetStarted ==
    /\ characters_data = <<>>
    /\ current_char_id = NoId
    /\ editing_char = Absent
    /\ dropdown = 0
    /\ sheet_pc = "idle"
    /\ next_id = 1
    /\ chosen = NoId
    /\ save_arg = Absent

\* no derived stat has been asked for
StatsStarted ==
    /\ drawn = Absent
    /\ derived = Absent

\* "Welcome, Dungeon Master! ..." and "Alright, a fresh parchment! ..."
Welcome == [role |-> "assistant", content |-> "welcome"]

FreshParchment == [role |-> "assistant", content |-> "fresh parchment"]

\* lines 108-109: the history of the first run
ChatStarted ==
    /\ messages = <<Welcome>>
    /\ chat_event = "none"

\* the sheet page and the chat page have not been used
OthersStarted ==
    /\ SheetStarted
    /\ StatsStarted
    /\ ChatStarted
    /\ model = "None"

NotCached == [cached |-> FALSE]

\* mutant: no result is ever taken from a cache
Fresh_Never(entry) == FALSE

\* mutant: an empty result is not taken from a cache
Fresh_NonEmptyOnly(entry) ==
    entry.cached /\ now - entry.at < ttl /\ entry.value # <<>>

\* an entry is returned as long as its ttl has not passed
Fresh(entry) == entry.cached /\ now - entry.at < ttl

\* before the first run
NoRun == [data |-> <<>>, query |-> <<>>, signal |-> "blank", results |-> <<>>]

\* the key of a category list and of an item detail in fetch_log
ListKey(category_name) == <<category_name, 0>>

DetailKey(url) == url

\* the signals of a run that showed the search box
BoxSignals == {"none", "enter_term", "zero_results", "results"}

\* the queries a user types in the runs after a build
PageQueries ==
    {<<>>, <<" ">>, <<"a">>, <<" ", "B">>, <<"a", "b">>}

\* the process has started, no run of the rulebook page yet
RulebookStarted ==
    /\ pc = "idle"
    /\ i = 0
    /\ j = 0
    /\ item_list = <<>>
    /\ all_srd_items = <<>>
    /\ progress = <<>>
    /\ warnings = {}
    /\ errors = {}
    /\ list_cache = [c \in CategoryNames |-> NotCached]
    /\ detail_cache = [u \in Urls |-> NotCached]
    /\ index_cache = NotCached
    /\ srd_combined_data = <<>>
    /\ search_query = <<>>
    /\ signal = "blank"
    /\ results = <<>>
    /\ now = 0
    /\ fetch_log = <<>>
    /\ previous = NoRun
    /\ in_flight = {}

\* the process has started, no run of any page yet
Started ==
    /\ RulebookStarted
    /\ OthersStarted

Init ==
    /\ remote \in Remotes
    /\ Started

(***************************************************************************)
(* The two cached fetches.  Each yields the set of results the call may    *)
(* have: the cached one while the entry is fresh, or else what the request *)
(* gives.  requests.get raises ConnectionError or Timeout on a transport   *)
(* failure, raise_for_status raises HTTPError on a non-success status.     *)
(* `raised` says the call raised instead of returning, `network` that it   *)
(* issued a request.                                                       *)
(***************************************************************************)
\* what a request can end in
NetworkOutcomes == {"ok", "ConnectionError", "Timeout", "HTTPError"}

\* the subclasses of requests.exceptions.RequestException among them
RequestException == {"ConnectionError", "Timeout", "HTTPError"}

\* mutant: the except clause names HTTPError alone
Caught_HTTPErrorOnly(exc) == exc = "HTTPError"

\* except requests.exceptions.RequestException, lines 34 and 48
Caught(exc) == exc \in RequestException

\* the item summaries of response.json().get("results", [])
ResultsOf(category_name) ==
    [k \in 1..Len(remote[category_name]) |-> [url |-> <<category_name, k>>]]

\* lines 30-37: the body of fetch_category_list on the outcome of its request
ListRequest(category_name, outcome) ==
    IF outcome = "ok"
    THEN [raised |-> FALSE, value |-> ResultsOf(category_name), error |-> FALSE,
          network |-> TRUE]
    ELSE IF Caught(outcome)
    THEN [raised |-> FALSE, value |-> <<>>, error |-> TRUE, network |-> TRUE]
    ELSE [raised |-> TRUE, value |-> <<>>, error |-> FALSE, network |-> TRUE]

\* lines 27-37
fetch_category_list(category_name) ==
    IF Fresh(list_cache[category_name])
    THEN {[raised |-> FALSE,
           value |-> list_cache[category_name].value,
           error |-> list_cache[category_name].error,
           network |-> FALSE]}
    ELSE {ListRequest(category_name, outcome) : outcome \in NetworkOutcomes}

\* lines 43-50: the body of fetch_item_details on the outcome of its request
DetailRequest(url, outcome) ==
    IF outcome = "ok"
    THEN [raised |-> FALSE, value |-> remote[url[1]][url[2]], network |-> TRUE]
    ELSE IF Caught(outcome)
    THEN [raised |-> FALSE, value |-> Absent, network |-> TRUE]
    ELSE [raised |-> TRUE, value |-> Absent, network |-> TRUE]

\* lines 40-50
fetch_item_details(url) ==
    IF Fresh(detail_cache[url])
    THEN {[raised |-> FALSE, value |-> detail_cache[url].value, network |-> FALSE]}
    ELSE {DetailRequest(url, outcome) : outcome \in NetworkOutcomes}

\* the entry of fetch_log of a call that returned r
Logged(key, r) == [key |-> key, value |-> r.value, network |-> r.network]

(***************************************************************************)
(* One run of the page script.                                             *)
(***************************************************************************)
\* an exception leaves load_and_combine_srd_data_from_api and ends the run
Crash ==
    /\ pc' = "crashed"
    /\ i' = 0
    /\ j' = 0
    /\ item_list' = <<>>
    /\ all_srd_items' = <<>>
    /\ signal' = "exception"

\* mutant: the build returns at the end of the first pass that fetched details
NextCategory_ReturnsEarly ==
    /\ i' = i + 1
    /\ j' = 0
    /\ item_list' = <<>>
    /\ pc' = "finish"

\* the end of one pass of the loop over CATEGORIES_TO_FETCH
NextCategory ==
    /\ i' = i + 1
    /\ j' = 0
    /\ item_list' = <<>>
    /\ pc' = IF i = total_categories THEN "finish" ELSE "list"

\* mutant: an empty list ends the loop over the categories (break)
AfterEmptyList_Break ==
    /\ i' = i + 1
    /\ j' = 0
    /\ item_list' = <<>>
    /\ pc' = "finish"

\* mutant: after an empty list the same category is fetched once more
AfterEmptyList_Retry ==
    /\ i' = i
    /\ j' = 0
    /\ item_list' = <<>>
    /\ pc' = IF \E k \in 1..Len(progress) : progress[k] = CATEGORIES_TO_FETCH[i]
             THEN IF i = total_categories THEN "finish" ELSE "list"
             ELSE "list"

\* line 76: `continue` after an empty list
AfterEmptyList == NextCategory

\* The script starts, with q the text of the search box (the box exists only
\* after a run that showed it).  Line 153: a cached index is returned as is.
StartRun(q) ==
    /\ pc \in {"idle", "crashed"}
    /\ q = <<>> \/ (pc = "idle" /\ signal \in BoxSignals)
    /\ search_query' = q
    /\ results' = <<>>
    /\ signal' = "running"
    /\ fetch_log' = <<>>
    /\ previous' = [data |-> srd_combined_data, query |-> search_query,
                    signal |-> signal, results |-> results]
    /\ IF Fresh(index_cache)
       THEN /\ srd_combined_data' = index_cache.value
            /\ pc' = "render"
            /\ UNCHANGED buildVars
       ELSE /\ srd_combined_data' = <<>>
            /\ pc' = "list"
            /\ i' = 1
            /\ j' = 0
            /\ item_list' = <<>>
            /\ all_srd_items' = <<>>
            /\ progress' = <<>>
            /\ warnings' = {}
            /\ errors' = {}
    /\ UNCHANGED otherPages
    /\ UNCHANGED <<remote, cacheVars, now, in_flight>>

\* line 31: requests.get of fetch_category_list is called and blocks
RequestList ==
    /\ pc = "list"
    /\ LET category_name == CATEGORIES_TO_FETCH[i]
       IN  /\ ~Fresh(list_cache[category_name])
           /\ ListKey(category_name) \notin in_flight
           /\ in_flight' = in_flight \cup {ListKey(category_name)}
    /\ UNCHANGED otherPages
    /\ UNCHANGED <<remote, pc, buildVars, cacheVars, pageVars, now, fetch_log, previous>>

\* lines 64-79: the list of category i, from the cache or from the request
\* that has been answered
LoopList ==
    /\ pc = "list"
    /\ LET category_name == CATEGORIES_TO_FETCH[i]
       IN  \E r \in fetch_category_list(category_name) :
             /\ Fresh(list_cache[category_name]) \/ ListKey(category_name) \in in_flight
             /\ in_flight' = in_flight \ {ListKey(category_name)}
             /\ progress' = Append(progress, category_name)
             /\ fetch_log' = Append(fetch_log, Logged(ListKey(category_name), r))
             /\ IF r.raised
                THEN /\ Crash
                     /\ UNCHANGED <<warnings, errors, list_cache>>
                ELSE /\ list_cache' =
                          IF r.network
                          THEN [list_cache EXCEPT ![category_name] =
                                   [cached |-> TRUE, value |-> r.value,
                                    error |-> r.error, at |-> now]]
                          ELSE list_cache
                     /\ errors' = IF r.error THEN errors \cup {category_name} ELSE errors
                     /\ UNCHANGED <<all_srd_items, signal>>
                     /\ IF r.value = <<>>
                        THEN /\ warnings' = warnings \cup {category_name}
                             /\ AfterEmptyList
                        ELSE /\ item_list' = r.value
                             /\ j' = 1
                             /\ pc' = "detail"
                             /\ UNCHANGED <<i, warnings>>
    /\ UNCHANGED otherPages
    /\ UNCHANGED <<remote, detail_cache, index_cache,
                   srd_combined_data, search_query, results, now, previous>>

\* mutant: the requests of all the details of the list are issued at once
RequestDetail_FanOut ==
    /\ pc = "detail"
    /\ ~Fresh(detail_cache[item_list[j].url])
    /\ DetailKey(item_list[j].url) \notin in_flight
    /\ in_flight' = in_flight \cup {DetailKey(item_list[k].url) : k \in j..Len(item_list)}
    /\ UNCHANGED otherPages
    /\ UNCHANGED <<remote, pc, buildVars, cacheVars, pageVars, now, fetch_log, previous>>

\* line 45: requests.get of fetch_item_details is called and blocks
RequestDetail ==
    /\ pc = "detail"
    /\ ~Fresh(detail_cache[item_list[j].url])
    /\ DetailKey(item_list[j].url) \notin in_flight
    /\ in_flight' = in_flight \cup {DetailKey(item_list[j].url)}
    /\ UNCHANGED otherPages
    /\ UNCHANGED <<remote, pc, buildVars, cacheVars, pageVars, now, fetch_log, previous>>

\* lines 82-122: the detail of item j of category i, from the cache or from
\* the request that has been answered
LoopDetail ==
    /\ pc = "detail"
    /\ LET category_name == CATEGORIES_TO_FETCH[i]
           url == item_list[j].url
       IN  \E r \in fetch_item_details(url) :
             /\ Fresh(detail_cache[url]) \/ DetailKey(url) \in in_flight
             /\ in_flight' = in_flight \ {DetailKey(url)}
             /\ fetch_log' = Append(fetch_log, Logged(DetailKey(url), r))
             /\ IF r.raised
                THEN /\ Crash
                     /\ UNCHANGED detail_cache
                ELSE
                  /\ detail_cache' =
                       IF r.network
                       THEN [detail_cache EXCEPT ![url] =
                                [cached |-> TRUE, value |-> r.value, at |-> now]]
                       ELSE detail_cache
                  /\ IF Truthy(r.value) /\ SearchTextParts(category_name, r.value).raised
                     THEN Crash
                     ELSE /\ all_srd_items' =
                               IF Truthy(r.value)
                               THEN Append(all_srd_items, MakeEntry(category_name, r.value))
                               ELSE all_srd_items
                          /\ UNCHANGED signal
                          /\ IF j = Len(item_list)
                             THEN NextCategory
                             ELSE /\ j' = j + 1
                                  /\ UNCHANGED <<pc, i, item_list>>
    /\ UNCHANGED otherPages
    /\ UNCHANGED <<remote, progress, warnings, errors, list_cache, index_cache,
                   srd_combined_data, search_query, results, now, previous>>

\* lines 135-143 and 153: the build returns, the result is cached
FinishBuild ==
    /\ pc = "finish"
    /\ errors' = IF all_srd_items = <<>> THEN errors \cup {"load"} ELSE errors
    /\ index_cache' = [cached |-> TRUE, value |-> all_srd_items, at |-> now]
    /\ srd_combined_data' = all_srd_items
    /\ all_srd_items' = <<>>
    /\ i' = 0
    /\ pc' = "render"
    /\ UNCHANGED otherPages
    /\ UNCHANGED <<remote, j, item_list, progress, warnings, list_cache, detail_cache,
                   search_query, signal, results, now, fetch_log, previous, in_flight>>

\* mutant: the result list is not emptied, a run adds to what the run before showed
Render_Accumulates ==
    /\ pc = "render"
    /\ LET shown == RenderPage(srd_combined_data, search_query)
       IN  /\ signal' = shown.signal
           /\ results' = previous.results \o shown.results
    /\ pc' = "idle"
    /\ UNCHANGED otherPages
    /\ UNCHANGED <<remote, buildVars, cacheVars, srd_combined_data, search_query,
                   now, fetch_log, previous, in_flight>>

\* lines 156-344: the page below the load
Render ==
    /\ pc = "render"
    /\ LET shown == RenderPage(srd_combined_data, search_query)
       IN  /\ signal' = shown.signal
           /\ results' = shown.results
    /\ pc' = "idle"
    /\ UNCHANGED otherPages
    /\ UNCHANGED <<remote, buildVars, cacheVars, srd_combined_data, search_query,
                   now, fetch_log, previous, in_flight>>

Next ==
    \/ \E q \in PageQueries : StartRun(q)
    \/ RequestList
    \/ LoopList
    \/ RequestDetail
    \/ LoopDetail
    \/ FinishBuild
    \/ Render

Spec == Init /\ [][Next]_vars

(***************************************************************************)
(* TimedSpec: the runs of the page spread over more than one ttl.  The     *)
(* clock moves between two runs of the script; a build, which takes a      *)
(* minute or two, lies within one step of the clock.  A list or detail     *)
(* entry is dropped when its ttl has passed.  The one entry of the index   *)
(* stays until the next build replaces it and is read only while fresh.    *)
(***************************************************************************)
\* the entry at time t: gone when its ttl has passed
Kept(entry, t) ==
    IF entry.cached /\ t - entry.at < ttl THEN entry ELSE NotCached

Tick ==
    /\ pc \in {"idle", "crashed"}
    /\ now < MaxTime
    /\ now' = now + TickSeconds
    /\ list_cache' = [c \in CategoryNames |-> Kept(list_cache[c], now')]
    /\ detail_cache' = [u \in Urls |-> Kept(detail_cache[u], now')]
    /\ UNCHANGED otherPages
    /\ UNCHANGED <<remote, pc, buildVars, index_cache, pageVars, fetch_log, previous,
                   in_flight>>

\* the queries typed in the runs of TimedSpec
TimedQueries == {<<>>, <<"a">>}

NextTimed ==
    \/ \E q \in TimedQueries : StartRun(q)
    \/ RequestList
    \/ LoopList
    \/ RequestDetail
    \/ LoopDetail
    \/ FinishBuild
    \/ Render
    \/ Tick

InitTimed ==
    /\ remote = Truncated(CatalogT)
    /\ Started

TimedSpec == InitTimed /\ [][NextTimed]_vars

(***************************************************************************)
(* SearchSpec: the page runs on an index that an earlier build cached.     *)
(* The index is any sequence of at most MaxIdx entries the build can       *)
(* append, in the order of the categories; the query is any string of at   *)
(* most MaxQueryLen characters of QueryAlphabet, or one of LongQueries.    *)
(***************************************************************************)
QueryAlphabet == {"a", "b", "A", " "}

LongQueries ==
    {<<" ", "a", "\t", " ", "b">>, <<"a", "\t", " ", "b">>, <<" ", "a", " ", "B", " ">>,
     <<" ", "\t", "\n">>}

Queries ==
    UNION {[1..n -> QueryAlphabet] : n \in 0..MaxQueryLen} \cup LongQueries

\* the (category, detail) pairs the entries of the drawn indexes come from
EntrySources ==
    {<<"Spells", DSpell>>, <<"Spells", DPlain>>, <<"Spells", DTwin>>,
     <<"Spells", DSpaced>>, <<"Monsters", DMonster>>, <<"Monsters", DPlain>>,
     <<"Magic Items", DItem>>, <<"Conditions", DNoName>>}

EntryPool == {MakeEntry(src[1], src[2]) : src \in EntrySources}

CategoryPos(category_name) ==
    CHOOSE k \in 1..total_categories : CATEGORIES_TO_FETCH[k] = category_name

\* the build appends category by category
InCategoryOrder(data) ==
    \A a, b \in 1..Len(data) :
        a < b => CategoryPos(data[a].category) <= CategoryPos(data[b].category)

Indexes ==
    {data \in UNION {[1..n -> EntryPool] : n \in 0..MaxIdx} : InCategoryOrder(data)}

InitSearch ==
    /\ remote = Truncated(CatalogA)
    /\ pc = "render"
    /\ i = 0
    /\ j = 0
    /\ item_list = <<>>
    /\ all_srd_items = <<>>
    /\ srd_combined_data \in Indexes
    /\ progress = CATEGORIES_TO_FETCH
    /\ warnings =
          {c \in CategoryNames :
              \A k \in 1..Len(srd_combined_data) : srd_combined_data[k].category # c}
    /\ errors = IF srd_combined_data = <<>> THEN {"load"} ELSE {}
    /\ list_cache = [c \in CategoryNames |-> NotCached]
    /\ detail_cache = [u \in Urls |-> NotCached]
    /\ index_cache = [cached |-> TRUE, value |-> srd_combined_data, at |-> 0]
    /\ search_query \in IF srd_combined_data = <<>> THEN {<<>>} ELSE Queries
    /\ signal = "running"
    /\ results = <<>>
    /\ now = 0
    /\ fetch_log = <<>>
    /\ previous = NoRun
    /\ in_flight = {}
    /\ OthersStarted

\* the script runs again with the text of the box as it is
Rerun == StartRun(search_query)

NextSearch ==
    \/ Render
    \/ Rerun

SearchSpec == InitSearch /\ [][NextSearch]_vars

(***************************************************************************)
(* Claims about the search.  The matching of the claims is stated here in  *)
(* the claims' own words, apart from the operators of the page.            *)
(***************************************************************************)
\* the page has run to its end on a non-empty index and a non-blank query
Searched ==
    /\ pc = "idle"
    /\ srd_combined_data # <<>>
    /\ Strip(search_query) # <<>>

\* Q lowercased and trimmed
ClaimQuery == Strip(Lower(search_query))

\* a name match: the lowercased name contains the lowercased, trimmed Q
ClaimNameMatch(e) == Contains(Lower(e.name), ClaimQuery)

\* a text match: no name match, and searchText contains the lowercased, trimmed Q
ClaimTextMatch(e) == ~ClaimNameMatch(e) /\ Contains(e.search_text, ClaimQuery)

ClaimKey(e) == <<e.name, e.category>>

\* x can be obtained from y by deleting elements
RECURSIVE IsSubsequence(_, _)
IsSubsequence(x, y) ==
    IF x = <<>> THEN TRUE
    ELSE IF y = <<>> THEN FALSE
    ELSE IF Head(x) = Head(y) THEN IsSubsequence(Tail(x), Tail(y))
    ELSE IsSubsequence(x, Tail(y))

\* C1: in search(I, Q), Q non-blank, every name match comes before every text
\* match, and within each of the two tiers the entries are in the relative
\* order they have in I.
C1_TiersInIndexOrder ==
    Searched =>
        /\ \A a, b \in 1..Len(results) :
              (ClaimTextMatch(results[a]) /\ ClaimNameMatch(results[b])) => b < a
        /\ IsSubsequence(SelectSeq(results, ClaimNameMatch), srd_combined_data)
        /\ IsSubsequence(SelectSeq(results, ClaimTextMatch), srd_combined_data)

\* C1 witness: the index holds a text match before a name match, and the
\* result holds both tiers.
C1_Witness ==
    /\ Searched
    /\ \E a, b \in 1..Len(srd_combined_data) :
          /\ a < b
          /\ ClaimTextMatch(srd_combined_data[a])
          /\ ClaimNameMatch(srd_combined_data[b])
    /\ \E a, b \in 1..Len(results) :
          ClaimNameMatch(results[a]) /\ ClaimTextMatch(results[b])

\* no (name, category) pair occurs twice in the result
NoPairTwice ==
    \A a, b \in 1..Len(results) :
        ClaimKey(results[a]) = ClaimKey(results[b]) => a = b

\* the first entry of the index with the pair of e
FirstWithPair(e) ==
    srd_combined_data[CHOOSE k \in 1..Len(srd_combined_data) :
        /\ ClaimKey(srd_combined_data[k]) = ClaimKey(e)
        /\ \A m \in 1..(k - 1) : ClaimKey(srd_combined_data[m]) # ClaimKey(e)]

\* the first entry of the index with the pair of e that matches the query
FirstMatchWithPair(e) ==
    srd_combined_data[CHOOSE k \in 1..Len(srd_combined_data) :
        /\ ClaimKey(srd_combined_data[k]) = ClaimKey(e)
        /\ ClaimNameMatch(srd_combined_data[k]) \/ ClaimTextMatch(srd_combined_data[k])
        /\ \A m \in 1..(k - 1) :
              ~ /\ ClaimKey(srd_combined_data[m]) = ClaimKey(e)
                /\ \/ ClaimNameMatch(srd_combined_data[m])
                   \/ ClaimTextMatch(srd_combined_data[m])]

\* C2 as stated: no (name, category) pair occurs twice in search(I, Q), and of
\* the index entries with the same pair the one kept is the first in index order.
C2_FirstInIndexKept ==
    pc = "idle" =>
        /\ NoPairTwice
        /\ \A a \in 1..Len(results) : results[a] = FirstWithPair(results[a])

\* C2 amended: no (name, category) pair occurs twice in search(I, Q), and of
\* the index entries with the same pair the one kept is the first in index
\* order among those that match the query.
C2_FirstMatchKept ==
    pc = "idle" =>
        /\ NoPairTwice
        /\ \A a \in 1..Len(results) : results[a] = FirstMatchWithPair(results[a])

\* C2 witness: two different entries of the index have the same pair and both
\* match; the result holds that pair.
C2_Witness ==
    /\ Searched
    /\ \E a, b \in 1..Len(srd_combined_data) :
          /\ a < b
          /\ ClaimKey(srd_combined_data[a]) = ClaimKey(srd_combined_data[b])
          /\ srd_combined_data[a] # srd_combined_data[b]
          /\ ClaimNameMatch(srd_combined_data[a]) \/ ClaimTextMatch(srd_combined_data[a])
          /\ ClaimNameMatch(srd_combined_data[b]) \/ ClaimTextMatch(srd_combined_data[b])
          /\ \E r \in 1..Len(results) : results[r] = srd_combined_data[a]
          /\ \A r \in 1..Len(results) : results[r] # srd_combined_data[b]

\* C3 as stated: every entry of search(I, Q) has Q lowercased as a substring
\* of its name or of its searchText.
C3_LoweredQueryInNameOrText ==
    pc = "idle" =>
        \A a \in 1..Len(results) :
            \/ Contains(results[a].name, Lower(search_query))
            \/ Contains(results[a].search_text, Lower(search_query))

\* C3 amended: every entry of search(I, Q) has Q lowercased and trimmed as a
\* substring of its lowercased name or of its searchText.
C3_OnlyMatchesReturned ==
    pc = "idle" =>
        \A a \in 1..Len(results) :
            \/ Contains(Lower(results[a].name), Strip(Lower(search_query)))
            \/ Contains(results[a].search_text, Strip(Lower(search_query)))

\* C3 witness: a search returned some entries of an index and left others out.
C3_Witness ==
    /\ Searched
    /\ results # <<>>
    /\ Len(results) < Len(srd_combined_data)
    /\ \E k \in 1..Len(srd_combined_data) :
          ~ClaimNameMatch(srd_combined_data[k]) /\ ~ClaimTextMatch(srd_combined_data[k])

\* C4: for a non-empty index and a non-blank query, every entry of the index
\* whose lowercased name or searchText contains the lowercased, trimmed query
\* is in the result, unless an entry with the same (name, category) pair is.
C4_Complete ==
    Searched =>
        \A k \in 1..Len(srd_combined_data) :
            (\/ Contains(Lower(srd_combined_data[k].name), ClaimQuery)
             \/ Contains(srd_combined_data[k].search_text, ClaimQuery))
            => \/ \E r \in 1..Len(results) : results[r] = srd_combined_data[k]
               \/ \E r \in 1..Len(results) :
                     ClaimKey(results[r]) = ClaimKey(srd_combined_data[k])

\* C4 witness: entries of the same name in two categories match and are both
\* in the result.
C4_Witness ==
    /\ Searched
    /\ \E a, b \in 1..Len(results) :
          /\ results[a].name = results[b].name
          /\ results[a].category # results[b].category

Building == pc \in {"list", "detail", "finish"}

\* it has returned in this run or an earlier one, and its result is cached
Built == pc \in {"render", "idle"} /\ index_cache.cached

\* the index under construction, or the one the page holds
CurrentIndex == IF Building THEN all_srd_items ELSE srd_combined_data

\* the entries of the index in hand
IndexEntries == {CurrentIndex[k] : k \in 1..Len(CurrentIndex)}

\* s with every run of whitespace made one space and without leading or
\* trailing whitespace
ClaimNormalized(s) == Strip(CollapseWs(s))

\* C5 as stated: the searchText of every entry of the index contains the
\* lowercased name of the entry, whatever the name is.
C5_TextContainsLoweredName ==
    \A e \in IndexEntries : Contains(e.search_text, Lower(e.name))

\* C5 amended: the searchText of every entry of the index contains the
\* lowercased name with every run of whitespace made one space and leading and
\* trailing whitespace removed: the lowercased name itself when the name has
\* no leading, trailing, repeated or non-space whitespace.
C5_TextContainsNormalizedName ==
    \A e \in IndexEntries :
        /\ Contains(e.search_text, ClaimNormalized(Lower(e.name)))
        /\ ClaimNormalized(e.name) = e.name => Contains(e.search_text, Lower(e.name))

\* C5 witness: the finished index holds an entry whose name has leading and
\* repeated whitespace, and an entry with fields besides the name.
C5_Witness ==
    /\ Built
    /\ \E e \in IndexEntries : ClaimNormalized(e.name) # e.name
    /\ \E e \in IndexEntries : Len(e.search_text) > Len(e.name)

\* the urls of the list the build got for category c
ListedUrls(c) ==
    IF list_cache[c].cached
    THEN [k \in 1..Len(list_cache[c].value) |-> list_cache[c].value[k].url]
    ELSE <<>>

\* the detail fetch of url returned a JSON object
FetchSucceeded(url) == detail_cache[url].cached /\ detail_cache[url].value # Absent

\* the raw_data of the entries of category c, in index order
RawDataOf(c) ==
    LET es == SelectSeq(CurrentIndex, LAMBDA e : e.category = c)
    IN  [k \in 1..Len(es) |-> es[k].raw_data]

\* the details of the items of category c whose fetch succeeded, in list order
FetchedDetails(c) ==
    LET us == SelectSeq(ListedUrls(c), FetchSucceeded)
    IN  [k \in 1..Len(us) |-> detail_cache[us[k]].value]

\* C6: after the build the index holds, for every category, exactly one entry
\* per item of its list whose detail fetch returned a JSON object (also an
\* object with no fields), and no other entry.
C6_OneEntryPerFetchedItem ==
    Built => \A c \in CategoryNames : RawDataOf(c) = FetchedDetails(c)

\* C8: when the built index is empty the page shows "search unavailable" and
\* no entries, never "zero results", whatever the query.
C8_EmptyIndexUnavailable ==
    (pc = "idle" /\ index_cache.cached /\ index_cache.value = <<>>) =>
        /\ signal = "unavailable"
        /\ results = <<>>
        /\ \A q \in Queries :
              RenderPage(srd_combined_data, q) =
                  [signal |-> "unavailable", results |-> <<>>]

\* C8 witness: all five list fetches failed and the page has run.
C8_Witness ==
    /\ pc = "idle"
    /\ index_cache.cached
    /\ \A c \in CategoryNames : list_cache[c].cached /\ list_cache[c].error
    /\ signal = "unavailable"

\* the categories the loop is done with
Completed(c) ==
    \/ Built
    \/ pc = "finish"
    \/ pc \in {"list", "detail"} /\ CategoryPos(c) < i

\* the detail fetch of url returned an object with at least one field
FetchedNonEmpty(url) == FetchSucceeded(url) /\ DOMAIN detail_cache[url].value # {}

\* C9: a category whose list fetch fails gets a warning, and the index holds
\* the entries of every other category whatever failed elsewhere: every
\* category is fetched, and every item fetched with a non-empty object has
\* its entry as soon as the loop is done with its category.
C9_FailuresStayInTheirCategory ==
    \A c \in CategoryNames :
        Completed(c) =>
            /\ list_cache[c].cached
            /\ list_cache[c].error => c \in warnings
            /\ \A k \in 1..Len(ListedUrls(c)) :
                  FetchedNonEmpty(ListedUrls(c)[k]) =>
                      \E e \in IndexEntries :
                          /\ e.category = c
                          /\ e.raw_data = detail_cache[ListedUrls(c)[k]].value

\* C9 witness: the Monsters list fetch failed, the other four categories
\* have entries in the finished index.
C9_Witness ==
    /\ Built
    /\ pc = "idle"
    /\ {c \in CategoryNames : list_cache[c].error} = {"Monsters"}
    /\ warnings = {"Monsters"}
    /\ {e.category : e \in IndexEntries} = CategoryNames \ {"Monsters"}

\* C10: the build always runs to completion over all five categories, and
\* the only condition that blocks the page is the empty final index.
C10_BuildAlwaysCompletes ==
    /\ pc # "crashed"
    /\ Built => progress = CATEGORIES_TO_FETCH
    /\ (pc = "idle" /\ signal \notin BoxSignals \cup {"blank"}) =>
          (signal = "unavailable" /\ srd_combined_data = <<>>)

\* What holds of the build under failing fetches alone: a run that ends in an
\* exception has fetched a record whose derivation raises, a build that
\* returns has gone through all five categories, and line 141 reports the
\* load error exactly when the index is empty.
FetchFailuresAbsorbed ==
    /\ pc = "crashed" =>
          \E u \in Urls :
              /\ detail_cache[u].cached
              /\ Truthy(detail_cache[u].value)
              /\ SearchTextParts(u[1], detail_cache[u].value).raised
    /\ Built =>
          /\ progress = CATEGORIES_TO_FETCH
          /\ "load" \in errors <=> srd_combined_data = <<>>

\* What the code does instead of C6: one entry per item whose detail fetch
\* returned an object with at least one field.
OneEntryPerNonEmptyDetail ==
    Built =>
        \A c \in CategoryNames :
            RawDataOf(c) =
                LET us == SelectSeq(ListedUrls(c), FetchedNonEmpty)
                IN  [k \in 1..Len(us) |-> detail_cache[us[k]].value]

(***************************************************************************)
(* Claims about error handling.                                            *)
(***************************************************************************)
\* C11: deriving searchText tolerates a record in which a field it reads is
\* missing or None: every record fetched with a non-empty object is derived
\* without an exception, and has its entry once the loop is done with its
\* category.
C11_MissingOrNoneTolerated ==
    \A u \in Urls :
        (detail_cache[u].cached /\ Truthy(detail_cache[u].value)) =>
            /\ ~SearchTextParts(u[1], detail_cache[u].value).raised
            /\ Completed(u[1]) =>
                  \E e \in IndexEntries :
                      e.category = u[1] /\ e.raw_data = detail_cache[u].value

\* records in which fields are missing, none of them None
RecordsWithMissingFields == {DPlain, DTwin, DNoName, DSpaced}

\* What holds of the derivation: a field that is missing is tolerated in
\* every category, and so is an ability list that is None.
MissingFieldsTolerated ==
    /\ \A c \in CategoryNames :
          \A d \in RecordsWithMissingFields : ~SearchTextParts(c, d).raised
    /\ ~SearchTextParts("Monsters", DMonster).raised

\* the last call in fetch_log
LastCall == fetch_log[Len(fetch_log)]

\* C12: no fetch raises past its boundary: a list fetch that fails returns the
\* empty sequence and is reported, a detail fetch returns the record or
\* absent, and a run that ends in an exception got it from the derivation of
\* a record that the last fetch returned, never from a fetch.
C12_FetchesNeverRaise ==
    /\ \A c \in CategoryNames :
          (list_cache[c].cached /\ list_cache[c].error) =>
              /\ list_cache[c].value = <<>>
              /\ \A k \in 1..Len(fetch_log) :
                    fetch_log[k].key = <<c, 0>> => (c \in errors /\ c \in warnings)
    /\ \A k \in 1..Len(fetch_log) :
          LET call == fetch_log[k]
          IN  IF call.key[2] = 0
              THEN call.value \in {<<>>, ResultsOf(call.key[1])}
              ELSE call.value \in {Absent, remote[call.key[1]][call.key[2]]}
    /\ pc = "crashed" =>
          /\ fetch_log # <<>>
          /\ LastCall.key[2] # 0
          /\ LastCall.value = remote[LastCall.key[1]][LastCall.key[2]]
          /\ LastCall.value # Absent

\* C12 witness: a list fetch and a detail fetch have failed in this run, and
\* the build has returned an index with entries.
C12_Witness ==
    /\ Built
    /\ \E k \in 1..Len(fetch_log) :
          /\ fetch_log[k].key[2] = 0
          /\ fetch_log[k].network
          /\ fetch_log[k].value = <<>>
          /\ list_cache[fetch_log[k].key[1]].error
    /\ \E k \in 1..Len(fetch_log) :
          /\ fetch_log[k].key[2] # 0
          /\ fetch_log[k].network
          /\ fetch_log[k].value = Absent
    /\ srd_combined_data # <<>>

(***************************************************************************)
(* Claims about the caches and the clock.                                  *)
(***************************************************************************)
\* the cache entry of a key of fetch_log, before and after a step
EntryOf(key) == IF key[2] = 0 THEN list_cache[key[1]] ELSE detail_cache[key]

EntryAfter(key) == IF key[2] = 0 THEN list_cache'[key[1]] ELSE detail_cache'[key]

\* C13: a fetch of a key whose last result, success or failure, was cached
\* less than 3600 seconds ago returns that result, issues no request and
\* leaves the entry as it is; any other fetch issues a request, and its
\* result is cached at the present time.
C13_CachedForOneTtl ==
    [][Len(fetch_log') = Len(fetch_log) + 1 =>
          LET call == fetch_log'[Len(fetch_log')]
              entry == EntryOf(call.key)
          IN  IF entry.cached /\ now < entry.at + 3600
              THEN /\ ~call.network
                   /\ call.value = entry.value
                   /\ EntryAfter(call.key) = entry
              ELSE /\ call.network
                   /\ EntryAfter(call.key).cached
                   /\ EntryAfter(call.key).value = call.value
                   /\ EntryAfter(call.key).at = now]_vars

\* C13 witness: half a ttl after a list fetch failed, the failure was served
\* from the cache; a detail was served from the cache too.
C13_Witness ==
    /\ \E k \in 1..Len(fetch_log) :
          /\ fetch_log[k].key[2] = 0
          /\ ~fetch_log[k].network
          /\ fetch_log[k].value = <<>>
          /\ EntryOf(fetch_log[k].key).error
          /\ now > EntryOf(fetch_log[k].key).at
    /\ \E k \in 1..Len(fetch_log) :
          /\ fetch_log[k].key[2] # 0
          /\ ~fetch_log[k].network

\* C13 second case: a ttl after the build that cached the index, a list and
\* a detail are fetched again over the network.
C13_RefetchReached ==
    /\ index_cache.cached
    /\ now >= index_cache.at + 3600
    /\ \E k \in 1..Len(fetch_log) : fetch_log[k].key[2] = 0 /\ fetch_log[k].network
    /\ \E k \in 1..Len(fetch_log) : fetch_log[k].key[2] # 0 /\ fetch_log[k].network

\* the load of this run has returned: the page below it runs or has run
Loaded == pc \in {"render", "idle"} /\ signal # "blank"

\* C14: the index that search reads is never a partly rebuilt one: what the
\* page holds after the load is the cached output of a build that went
\* through all five categories; the cached index changes only when a build
\* returns, to the whole output of that build; and a rebuild that ends in an
\* exception leaves the cached index of before in place.
C14_IndexNeverPartial ==
    /\ [](Loaded =>
            /\ index_cache.cached
            /\ srd_combined_data = index_cache.value
            /\ progress = <<"Spells", "Monsters", "Magic Items", "Equipment", "Conditions">>)
    /\ [][/\ index_cache' # index_cache =>
                /\ pc = "finish"
                /\ pc' = "render"
                /\ index_cache'.value = all_srd_items
          /\ pc' = "crashed" => index_cache' = index_cache]_vars

\* C14 witness: an index with entries was cached, its ttl has passed, and the
\* rebuild has ended in an exception after it had appended entries.
C14_Witness ==
    /\ pc = "crashed"
    /\ index_cache.cached
    /\ index_cache.value # <<>>
    /\ now >= index_cache.at + 3600
    /\ \E k \in 1..Len(fetch_log) :
          /\ fetch_log[k].key[2] # 0
          /\ fetch_log[k].key[1] = "Spells"
          /\ Truthy(fetch_log[k].value)

\* a build is under way, or has ended in an exception, after the ttl of the
\* cached index has passed
RebuildAfterExpiry ==
    /\ pc \in {"list", "detail", "finish", "crashed"}
    /\ index_cache.cached
    /\ now >= index_cache.at + 3600

\* C15: a rebuild triggered by the expiry of the index is done from scratch:
\* every list and every detail it uses is fetched over the network, none is
\* served from a cache.
C15_RebuildFromScratch ==
    RebuildAfterExpiry =>
        \A k \in 1..Len(fetch_log) : fetch_log[k].network

\* What holds of a rebuild after the expiry of the index: no result that was
\* cached up to the time the index was cached, so none of the build that made
\* the index, is served; a result it takes from a cache was cached after the
\* expiry, by a run that ended in an exception.
NothingOfPreviousBuildServed ==
    RebuildAfterExpiry =>
        \A k \in 1..Len(fetch_log) :
            ~fetch_log[k].network =>
                /\ EntryOf(fetch_log[k].key).cached
                /\ EntryOf(fetch_log[k].key).at >= index_cache.at + 3600
                /\ previous.signal = "exception"

\* C16: after a build that ended with an empty index every run of the page
\* shows "search unavailable"; a run that starts before the ttl of that index
\* has passed makes no build attempt, and a run that starts after it makes one.
C16_EmptyIndexUntilExpiry ==
    /\ []((Loaded /\ index_cache.cached /\ index_cache.value = <<>>) =>
             (signal \in {"running", "unavailable"} /\ results = <<>>))
    /\ [][(/\ pc \in {"idle", "crashed"}
           /\ pc' \notin {"idle", "crashed"}
           /\ index_cache.cached
           /\ index_cache.value = <<>>) =>
             IF now < index_cache.at + 3600
             THEN pc' = "render" /\ UNCHANGED <<cacheVars, progress>> /\ fetch_log' = <<>>
             ELSE pc' = "list" /\ i' = 1 /\ all_srd_items' = <<>>]_vars

\* C16 witness: the index was built empty, the run before this one showed
\* "search unavailable", and now, a ttl after the build, a run has started a
\* new build.
C16_Witness ==
    /\ pc = "list"
    /\ index_cache.cached
    /\ index_cache.value = <<>>
    /\ now >= index_cache.at + 3600
    /\ previous.signal = "unavailable"
    /\ "load" \notin errors

(***************************************************************************)
(* Claims about the signals and the purity of the search.                  *)
(***************************************************************************)
\* an entry of the index matches the query of the claims
ClaimMatches(e) == ClaimNameMatch(e) \/ ClaimTextMatch(e)

\* C17: for a non-empty index and a query that is non-blank after trimming,
\* the page shows "zero results" exactly when no entry of the index matches,
\* and a non-empty result list otherwise; it shows neither "search
\* unavailable" nor "enter a search term".
C17_ZeroResultsIffNoMatch ==
    Searched =>
        /\ signal \in {"zero_results", "results"}
        /\ signal = "zero_results" <=>
              \A k \in 1..Len(srd_combined_data) : ~ClaimMatches(srd_combined_data[k])
        /\ signal = "zero_results" => results = <<>>
        /\ signal = "results" => results # <<>>

\* C17 witness: a search of an index of several entries found no match.
C17_Witness ==
    /\ Searched
    /\ Len(srd_combined_data) >= 2
    /\ signal = "zero_results"

\* C18: search is a pure function of the index and the query: a run on the
\* index and the query of the run before shows the same signal and the same
\* result sequence, and the page below the load changes neither the index
\* nor a cached result.
C18_SearchIsPure ==
    /\ []((/\ pc = "idle"
           /\ previous.signal \in BoxSignals
           /\ previous.data = srd_combined_data
           /\ previous.query = search_query) =>
             (previous.signal = signal /\ previous.results = results))
    /\ [][pc = "render" =>
             UNCHANGED <<srd_combined_data, index_cache, list_cache, detail_cache>>]_vars

\* C18 witness: the same query has run twice on the same index and returned
\* entries both times, fewer than the index holds.
C18_Witness ==
    /\ pc = "idle"
    /\ previous.signal = "results"
    /\ previous.data = srd_combined_data
    /\ previous.query = search_query
    /\ signal = "results"
    /\ Len(results) < Len(srd_combined_data)

(***************************************************************************)
(* Claims about the order and the form of the index.                       *)
(***************************************************************************)
\* the place of a category in the declaration order of the claim
ClaimRank(category_name) ==
    CASE category_name = "Spells" -> 1
      [] category_name = "Monsters" -> 2
      [] category_name = "Magic Items" -> 3
      [] category_name = "Equipment" -> 4
      [] category_name = "Conditions" -> 5

\* the details behind the list the build got for category c, in list order
ListedDetails(c) ==
    [k \in 1..Len(ListedUrls(c)) |-> remote[c][ListedUrls(c)[k][2]]]

\* C19: the index is ordered by category in the order Spells, Monsters, Magic
\* Items, Equipment, Conditions, and within one category the entries are in
\* the order of the items of the category's fetched list.
C19_IndexInDeclarationOrder ==
    /\ \A a, b \in 1..Len(CurrentIndex) :
          a < b => ClaimRank(CurrentIndex[a].category) <= ClaimRank(CurrentIndex[b].category)
    /\ \A c \in CategoryNames : IsSubsequence(RawDataOf(c), ListedDetails(c))

\* C19 witness: the finished index holds two different entries of one
\* category and entries of four categories.
C19_Witness ==
    /\ Built
    /\ \E a, b \in 1..Len(srd_combined_data) :
          /\ a < b
          /\ srd_combined_data[a].category = srd_combined_data[b].category
          /\ srd_combined_data[a].raw_data # srd_combined_data[b].raw_data
    /\ Cardinality({e.category : e \in IndexEntries}) >= 4

\* the uppercase characters of the strings of the model
ClaimUppercase == {"A", "B", "N", "U"}

\* C20: every searchText of the index is lowercased and whitespace-normalized:
\* no uppercase character, no whitespace other than single spaces, no two
\* spaces in a row, no leading and no trailing space.
C20_SearchTextNormalized ==
    \A e \in IndexEntries :
        LET t == e.search_text
        IN  /\ \A k \in 1..Len(t) : t[k] \notin ClaimUppercase \cup {"\t", "\n"}
            /\ \A k \in 1..(Len(t) - 1) : ~(t[k] = " " /\ t[k + 1] = " ")
            /\ t # <<>> => (t[1] # " " /\ t[Len(t)] # " ")

\* C20 witness: the finished index holds an entry whose name has uppercase
\* characters, a tab and leading whitespace, and an entry of a record with
\* no name.
C20_Witness ==
    /\ Built
    /\ \E e \in IndexEntries :
          /\ \E k \in 1..Len(e.name) : e.name[k] \in ClaimUppercase
          /\ \E k \in 1..Len(e.name) : e.name[k] = "\t"
          /\ e.name[1] = " "
    /\ \E e \in IndexEntries : "name" \notin DOMAIN e.raw_data

(***************************************************************************)
(* Claims about the order of the requests and the signals of the build.    *)
(***************************************************************************)
\* the fetch calls of the build so far, the issued request last
CallKeys ==
    [k \in 1..Len(fetch_log) |-> fetch_log[k].key]
        \o (IF in_flight = {} THEN <<>> ELSE <<CHOOSE key \in in_flight : TRUE>>)

\* C21: during a build at most one request is outstanding; the list fetch of
\* a category comes before every detail fetch of the category; the fetches
\* of one category are not interleaved with those of another; and no detail
\* is fetched for a category whose list was empty.
C21_OneRequestAtATime ==
    /\ Cardinality(in_flight) <= 1
    /\ \A k \in 1..Len(CallKeys) :
          CallKeys[k][2] # 0 =>
              \E m \in 1..(k - 1) : CallKeys[m] = <<CallKeys[k][1], 0>>
    /\ \A a, b, c \in 1..Len(CallKeys) :
          (a < b /\ b < c /\ CallKeys[a][1] = CallKeys[c][1]) =>
              CallKeys[b][1] = CallKeys[a][1]
    /\ \A k \in 1..Len(fetch_log) :
          (fetch_log[k].key[2] = 0 /\ fetch_log[k].value = <<>>) =>
              \A m \in 1..Len(CallKeys) :
                  CallKeys[m][1] = fetch_log[k].key[1] => CallKeys[m][2] = 0

\* C21 witness: the request of the second detail of the last category is
\* outstanding, after a category whose list was empty and a category with a
\* detail fetched.
C21_Witness ==
    /\ in_flight = {<<"Conditions", 2>>}
    /\ \E k \in 1..Len(fetch_log) :
          fetch_log[k].key[2] = 0 /\ fetch_log[k].network /\ fetch_log[k].value = <<>>
    /\ \E k \in 1..Len(fetch_log) : fetch_log[k].key = <<"Spells", 1>>

\* the call returned a failure: an empty list or an absent detail
FailedCall(call) ==
    IF call.key[2] = 0 THEN call.value = <<>> ELSE call.value = Absent

\* C22: no fetch is retried: within one build every list endpoint and every
\* detail url is fetched at most once, whether the fetch succeeds or fails,
\* and a key is requested again over the network only by a run that starts
\* after the ttl of its cached result has passed.
C22_NoRetry ==
    /\ [](\A a, b \in 1..Len(CallKeys) : CallKeys[a] = CallKeys[b] => a = b)
    /\ [][\A key \in in_flight' \ in_flight :
              EntryOf(key).cached => now >= EntryOf(key).at + ttl]_vars

\* C22 witness: a list fetch and a detail fetch have failed over the network,
\* and the build has gone on to its end.
C22_Witness ==
    /\ pc = "finish"
    /\ \E k \in 1..Len(fetch_log) :
          /\ fetch_log[k].key[2] = 0
          /\ fetch_log[k].network
          /\ FailedCall(fetch_log[k])
          /\ list_cache[fetch_log[k].key[1]].error
    /\ \E k \in 1..Len(fetch_log) :
          /\ fetch_log[k].key[2] # 0
          /\ fetch_log[k].network
          /\ FailedCall(fetch_log[k])

\* C23: a run that builds the index warns for exactly the categories whose
\* fetched list is empty, failed or not; a failed detail fetch gives no warning and no error,
\* and an item whose detail is absent does not enter the index.
C23_WarningsForEmptyLists ==
    /\ [](/\ (Building \/ fetch_log # <<>>) =>
                warnings =
                    {fetch_log[k].key[1] :
                        k \in {m \in 1..Len(fetch_log) :
                                  fetch_log[m].key[2] = 0 /\ fetch_log[m].value = <<>>}}
          /\ \A e \in IndexEntries : e.raw_data # Absent
          /\ (Building \/ fetch_log # <<>>) =>
                \A c \in CategoryNames :
                    Len(RawDataOf(c)) <=
                        Cardinality({k \in 1..Len(fetch_log) :
                                        /\ fetch_log[k].key[1] = c
                                        /\ fetch_log[k].key[2] # 0
                                        /\ fetch_log[k].value # Absent}))
    /\ [][(Len(fetch_log') = Len(fetch_log) + 1 /\ fetch_log'[Len(fetch_log')].key[2] # 0) =>
              (warnings' = warnings /\ errors' = errors)]_vars

\* C23 witness: the build has returned; one list had failed and one was
\* empty, both with a warning; a detail fetch had failed, in a category that
\* has an entry and no warning.
C23_Witness ==
    /\ pc = "render"
    /\ \E c \in warnings : list_cache[c].error
    /\ \E c \in warnings : ~list_cache[c].error
    /\ \E k \in 1..Len(fetch_log) :
          /\ fetch_log[k].key[2] # 0
          /\ fetch_log[k].value = Absent
          /\ fetch_log[k].key[1] \notin warnings
          /\ \E e \in IndexEntries : e.category = fetch_log[k].key[1]

(***************************************************************************)
(* The character sheet page (src/pages/03_Character_Sheets.py): the        *)
(* derived-stat functions.  A character is a record (a Python dict), a     *)
(* list of names a sequence.                                               *)
(***************************************************************************)
\* Largest proficiency bonus of the characters drawn in StatsSpec.
MaxProficiencyBonus == 6

\* line 276: number_input(min_value=1, max_value=30) of an ability score
MinScore == 1

MaxScore == 30

\* dict.get(key, default)
DictGet(d, key, default) == IF key \in DOMAIN d THEN d[key] ELSE default

\* x in a list
InList(x, list) == \E k \in 1..Len(list) : list[k] = x

\* mutant: the division rounds toward zero
get_ability_modifier_TowardZero(score) ==
    IF score >= 10 THEN (score - 10) \div 2 ELSE 0 - ((10 - score) \div 2)

\* lines 122-123: Python's // rounds toward minus infinity, as \div does
get_ability_modifier(score) == (score - 10) \div 2

ABILITY_SCORES_FULL ==
    <<"strength", "dexterity", "constitution", "intelligence", "wisdom", "charisma">>

SKILLS_DATA ==
    ("Acrobatics" :> "dexterity") @@ ("Animal Handling" :> "wisdom") @@
    ("Arcana" :> "intelligence") @@ ("Athletics" :> "strength") @@
    ("Deception" :> "charisma") @@ ("History" :> "intelligence") @@
    ("Insight" :> "wisdom") @@ ("Intimidation" :> "charisma") @@
    ("Investigation" :> "intelligence") @@ ("Medicine" :> "wisdom") @@
    ("Nature" :> "intelligence") @@ ("Perception" :> "wisdom") @@
    ("Performance" :> "charisma") @@ ("Persuasion" :> "charisma") @@
    ("Religion" :> "intelligence") @@ ("Sleight of Hand" :> "dexterity") @@
    ("Stealth" :> "dexterity") @@ ("Survival" :> "wisdom")

\* lines 135-140
calculate_total_modifier(stat_name, char_data) ==
    LET base_mod == get_ability_modifier(DictGet(char_data, stat_name, 10))
        is_proficient ==
            InList(stat_name, DictGet(char_data, "saving_throws_proficiencies", <<>>))
    IN  IF is_proficient
        THEN base_mod + DictGet(char_data, "proficiency_bonus", 0)
        ELSE base_mod

\* lines 142-153
calculate_skill_total_modifier(skill_name, char_data) ==
    LET stat_for_skill == DictGet(SKILLS_DATA, skill_name, "intelligence")
        base_mod == get_ability_modifier(DictGet(char_data, stat_for_skill, 10))
        is_proficient ==
            InList(skill_name, DictGet(char_data, "skills_proficiencies", <<>>))
        is_expert == InList(skill_name, DictGet(char_data, "skills_expertise", <<>>))
        with_proficiency ==
            IF is_proficient
            THEN base_mod + DictGet(char_data, "proficiency_bonus", 0)
            ELSE base_mod
    IN  IF is_expert
        THEN with_proficiency + DictGet(char_data, "proficiency_bonus", 0)
        ELSE with_proficiency

\* the proficiency bonuses drawn: the least the form takes (line 311), the
\* one of the template (line 30), and a large one
ProficiencyBonuses == {0, 2, MaxProficiencyBonus}

\* the scores of the second ability: the ends of the range and around 10
OtherScores == {MinScore, 9, 10, 11, MaxScore}

\* the characters and names the functions are applied to
DrawnInputs ==
    [ char_data :
          [ strength : MinScore..MaxScore,
            dexterity : OtherScores,
            proficiency_bonus : ProficiencyBonuses,
            saving_throws_proficiencies : {<<>>, <<"strength">>},
            skills_proficiencies : {<<>>, <<"Athletics">>},
            skills_expertise : {<<>>, <<"Athletics">>} ],
      stat_name : {"strength", "dexterity"},
      skill_name : {"Athletics", "Stealth"} ]

\* lines 278, 323, 345: the three functions applied to the drawn arguments
ComputeStats ==
    /\ drawn # Absent
    /\ derived = Absent
    /\ derived' =
          [ modifier |-> get_ability_modifier(drawn.char_data[drawn.stat_name]),
            save |-> calculate_total_modifier(drawn.stat_name, drawn.char_data),
            skill |-> calculate_skill_total_modifier(drawn.skill_name, drawn.char_data) ]
    /\ UNCHANGED <<rulebookVars, sheetVars, chatVars, drawn>>

InitStats ==
    /\ remote = Truncated(CatalogT)
    /\ RulebookStarted
    /\ SheetStarted
    /\ ChatStarted
    /\ model = "None"
    /\ drawn \in DrawnInputs
    /\ derived = Absent

NextStats == ComputeStats

StatsSpec == InitStats /\ [][NextStats]_vars

\* the floor of (score - 10) / 2: the integer m with 2m <= score - 10 < 2m + 2
ClaimFloorOfHalf(score, m) == 2 * m <= score - 10 /\ score - 10 < 2 * m + 2

\* the modifier the claim gives the ability of the drawn character
ClaimModifier(ability) ==
    CHOOSE m \in (0 - MaxScore)..MaxScore :
        ClaimFloorOfHalf(drawn.char_data[ability], m)

\* C24: for every score from 1 to 30 the ability modifier is the floor of
\* (score - 10) / 2 (1 gives -5, 9 gives -1, 10 and 11 give 0, 30 gives 10); a
\* saving throw total is the modifier plus the proficiency bonus when
\* proficient; a skill total is the modifier of the skill's ability plus the
\* proficiency bonus once when proficient and once more when expert.
C24_DerivedStats ==
    derived # Absent =>
        LET c == drawn.char_data
            score == c[drawn.stat_name]
            bonus == c.proficiency_bonus
        IN  /\ score \in MinScore..MaxScore
            /\ ClaimFloorOfHalf(score, derived.modifier)
            /\ score = 1 => derived.modifier = 0 - 5
            /\ score = 9 => derived.modifier = 0 - 1
            /\ score \in {10, 11} => derived.modifier = 0
            /\ score = 30 => derived.modifier = 10
            /\ derived.save =
                  ClaimModifier(drawn.stat_name)
                    + (IF InList(drawn.stat_name, c.saving_throws_proficiencies)
                       THEN bonus ELSE 0)
            /\ derived.skill =
                  ClaimModifier(SKILLS_DATA[drawn.skill_name])
                    + (IF InList(drawn.skill_name, c.skills_proficiencies)
                       THEN bonus ELSE 0)
                    + (IF InList(drawn.skill_name, c.skills_expertise)
                       THEN bonus ELSE 0)

\* C24 witness: a score below 10 and odd, with proficiency in the saving
\* throw and proficiency and expertise in the skill.
C24_Witness ==
    /\ derived # Absent
    /\ drawn.stat_name = "strength"
    /\ drawn.skill_name = "Athletics"
    /\ drawn.char_data.strength = 9
    /\ drawn.char_data.proficiency_bonus = 2
    /\ derived = [modifier |-> 0 - 1, save |-> 1, skill |-> 3]

(***************************************************************************)
(* The character sheet page: the store of characters and the script.       *)
(* characters_data is a dict keyed by doc_id; it is modelled as the        *)
(* sequence of its values in insertion order, each holding its doc_id.  A  *)
(* uuid4 value is the number of the draw.  Positions in a list are         *)
(* 1-based, 0 stands for None.  A run of the script is one step: it gets   *)
(* the position the Select Character box returns, the button clicked (if   *)
(* any) and the text typed in the Character Name field (if any).           *)
(***************************************************************************)
\* Largest number of characters created by New Character.
MaxCreated == 3

\* line 205: default_name_base
default_name_base ==
    <<"N", "e", "w", " ", "C", "h", "a", "r", "a", "c", "t", "e", "r">>

\* lines 14-78
get_character_template(uuid) ==
    [ doc_id |-> uuid,
      name |-> default_name_base,
      player_name |-> <<>>,
      race |-> <<>>,
      class_level |-> <<>>,
      alignment |-> <<>>,
      background |-> <<>>,
      experience_points |-> 0,
      image_url |-> <<>>,
      strength |-> 10, dexterity |-> 10, constitution |-> 10,
      intelligence |-> 10, wisdom |-> 10, charisma |-> 10,
      inspiration |-> FALSE,
      proficiency_bonus |-> 2,
      saving_throws_proficiencies |-> <<>>,
      skills_proficiencies |-> <<>>,
      skills_expertise |-> <<>>,
      armor_class |-> 10,
      initiative |-> 0,
      speed |-> <<"3", "0", " ", "f", "t", ".">>,
      max_hp |-> 10,
      current_hp |-> 10,
      temporary_hp |-> 0,
      hit_dice_total |-> <<"1", "d", "8">>,
      hit_dice_current |-> <<"1", "d", "8">>,
      death_saves_successes |-> 0,
      death_saves_failures |-> 0,
      personality_traits |-> <<>>,
      ideals |-> <<>>,
      bonds |-> <<>>,
      flaws |-> <<>>,
      attacks_spellcasting_notes |-> <<>>,
      equipment_inventory_notes |-> <<>>,
      cp |-> 0, sp |-> 0, ep |-> 0, gp |-> 0, pp |-> 0,
      features_traits_notes |-> <<>>,
      spellcasting_ability |-> <<"N", "o", "n", "e">>,
      spell_save_dc |-> 8,
      spell_attack_bonus |-> 0,
      spell_slots_level_1_total |-> 0, spell_slots_level_1_used |-> 0,
      spell_slots_level_2_total |-> 0, spell_slots_level_2_used |-> 0,
      spell_slots_level_3_total |-> 0, spell_slots_level_3_used |-> 0,
      spell_slots_level_4_total |-> 0, spell_slots_level_4_used |-> 0,
      spell_slots_level_5_total |-> 0, spell_slots_level_5_used |-> 0,
      spell_slots_level_6_total |-> 0, spell_slots_level_6_used |-> 0,
      spell_slots_level_7_total |-> 0, spell_slots_level_7_used |-> 0,
      spell_slots_level_8_total |-> 0, spell_slots_level_8_used |-> 0,
      spell_slots_level_9_total |-> 0, spell_slots_level_9_used |-> 0,
      prepared_spells_notes |-> <<>>,
      notes |-> <<>>,
      backstory |-> <<>> ]

\* the keys of the dict
KeysOf(store) == {store[k].doc_id : k \in 1..Len(store)}

\* store.get(char_id)
Lookup(store, char_id) ==
    IF char_id \in KeysOf(store)
    THEN store[CHOOSE k \in 1..Len(store) : store[k].doc_id = char_id]
    ELSE Absent

\* store[char_id] = record: a present key keeps its place, a new one is last
Put(store, char_id, record) ==
    IF char_id \in KeysOf(store)
    THEN [k \in 1..Len(store) |->
             IF store[k].doc_id = char_id THEN record ELSE store[k]]
    ELSE Append(store, record)

\* del store[char_id]
Del(store, char_id) == SelectSeq(store, LAMBDA c : c.doc_id # char_id)

\* the three objects of st.session_state the page works on
Session ==
    [ characters_data |-> characters_data,
      current_char_id |-> current_char_id,
      editing_char |-> editing_char ]

\* lines 100 and 104: the record is stored under its doc_id and a copy of it
\* becomes editing_char
Stored(S, final_char_data) ==
    [S EXCEPT !.characters_data = Put(@, final_char_data.doc_id, final_char_data),
              !.editing_char = final_char_data]

\* mutant: the keys of the argument that the template lacks are kept
Finalized_KeepsKeys(character_data, template) ==
    [key \in DOMAIN template \cup DOMAIN character_data |->
        DictGet(character_data, key, DictGet(template, key, 0))]

\* lines 96-98: final_char_data, the template's keys with the values of the
\* argument, or of the template where the argument has none
Finalized(character_data, template) ==
    [key \in DOMAIN template |->
        IF key = "doc_id" THEN character_data.doc_id
        ELSE DictGet(character_data, key, template[key])]

\* lines 89-104; the session after the call
save_character(S, character_data) ==
    IF ~Truthy(character_data) \/ "doc_id" \notin DOMAIN character_data
    THEN S
    ELSE Stored(S, Finalized(character_data, get_character_template(NoId)))

\* lines 107-108
load_characters(S) == S.characters_data

\* lines 110-119; the session after the call (the call returns whether
\* char_id was a key)
delete_character(S, char_id) ==
    IF char_id \in KeysOf(S.characters_data)
    THEN IF S.current_char_id = char_id
         THEN [ characters_data |-> Del(S.characters_data, char_id),
                current_char_id |-> NoId,
                editing_char |-> Absent ]
         ELSE [S EXCEPT !.characters_data = Del(@, char_id)]
    ELSE S

\* ord() of the characters of a lower-cased name
CodePoint(c) ==
    CASE c = " " -> 32
      [] c = "1" -> 49
      [] c = "2" -> 50
      [] c = "3" -> 51
      [] c = "4" -> 52
      [] c = "a" -> 97
      [] c = "b" -> 98
      [] c = "c" -> 99
      [] c = "e" -> 101
      [] c = "h" -> 104
      [] c = "n" -> 110
      [] c = "r" -> 114
      [] c = "t" -> 116
      [] c = "w" -> 119

\* a < b on str
RECURSIVE StrLess(_, _)
StrLess(a, b) ==
    IF b = <<>> THEN FALSE
    ELSE IF a = <<>> THEN TRUE
    ELSE IF CodePoint(Head(a)) < CodePoint(Head(b)) THEN TRUE
    ELSE IF CodePoint(Head(a)) > CodePoint(Head(b)) THEN FALSE
    ELSE StrLess(Tail(a), Tail(b))

\* key=lambda c: c.get("name", "").lower()
NameKey(c) == Lower(DictGet(c, "name", <<>>))

\* `last` put behind the records of `sorted` whose key is not greater
InsertByName(sorted, last) ==
    LET before ==
            Cardinality({k \in 1..Len(sorted) :
                            ~StrLess(NameKey(last), NameKey(sorted[k]))})
    IN  [k \in 1..(Len(sorted) + 1) |->
            IF k <= before THEN sorted[k]
            ELSE IF k = before + 1 THEN last
            ELSE sorted[k - 1]]

\* sorted(characters_list, key=...): stable, equal keys keep their order
RECURSIVE SortedByName(_)
SortedByName(characters_list) ==
    IF characters_list = <<>> THEN <<>>
    ELSE InsertByName(
             SortedByName(SubSeq(characters_list, 1, Len(characters_list) - 1)),
             characters_list[Len(characters_list)])

\* the value of `key` in each record of the list
Column(list, key) == [k \in 1..Len(list) |-> list[k][key]]

\* line 164
character_names_in_order(characters_list) ==
    Column(SortedByName(characters_list), "name")

\* line 165
sorted_char_ids(characters_list) ==
    Column(SortedByName(characters_list), "doc_id")

\* list.index(x): the first position of x
IndexOf(list, x) == CHOOSE k \in 1..Len(list) : list[k] = x /\ \A m \in 1..(k - 1) : list[m] # x

\* lines 168-175, with `names` for character_names_in_order
SelectionIndexIn(names, editing) ==
    IF Truthy(editing) /\ InList(DictGet(editing, "name", <<>>), names)
    THEN IndexOf(names, DictGet(editing, "name", <<>>))
    ELSE IF names # <<>> THEN 1
    ELSE 0

current_selection_index(S) ==
    SelectionIndexIn(character_names_in_order(load_characters(S)), S.editing_char)

\* lines 190-193: the character of the first entry that has the name is
\* loaded, and st.rerun() is called
LoadSelected(S, selected_doc_id) ==
    [ S |-> [S EXCEPT !.current_char_id = selected_doc_id,
                      !.editing_char = Lookup(S.characters_data, selected_doc_id)],
      rerun |-> TRUE ]

\* lines 180-198, with `names` for character_names_in_order and `ids` for
\* sorted_char_ids
SelectionIn(S, names, ids, box) ==
    IF names # <<>>
    THEN IF /\ names[box] # <<>>
            /\ (\/ S.editing_char = Absent
                \/ DictGet(S.editing_char, "name", <<>>) # names[box])
         THEN LoadSelected(S, ids[IndexOf(names, names[box])])
         ELSE [S |-> S, rerun |-> FALSE]
    ELSE IF S.editing_char # Absent
         THEN [ S |-> [S EXCEPT !.editing_char = Absent, !.current_char_id = NoId],
                rerun |-> FALSE ]
         ELSE [S |-> S, rerun |-> FALSE]

\* lines 180-198, with box the position the selectbox returns: the session
\* after them, and whether st.rerun() was called
SelectionLogic(S, box) ==
    SelectionIn(S, character_names_in_order(load_characters(S)),
                sorted_char_ids(load_characters(S)), box)

\* str(count)
DigitChar(count) == <<"1", "2", "3", "4", "5", "6", "7", "8", "9">>[count]

\* lines 206-210: the candidate after `count` turns of the loop
RECURSIVE UniqueDefaultName(_, _)
UniqueDefaultName(existing_names, count) ==
    LET new_name_candidate ==
            IF count = 0 THEN default_name_base
            ELSE default_name_base \o <<" ", DigitChar(count)>>
    IN  IF Lower(new_name_candidate) \in existing_names
        THEN UniqueDefaultName(existing_names, count + 1)
        ELSE new_name_candidate

\* lines 204-211: the template with a default name no stored character has
NamedTemplate(characters_list, uuid) ==
    [get_character_template(uuid) EXCEPT
        !.name = UniqueDefaultName(
                     {NameKey(characters_list[k]) : k \in 1..Len(characters_list)}, 0)]

\* mutant: the new character is stored and shown but not made the current one
SaveAndSelect_NoCurrent(S, new_char_template) ==
    [save_character(S, new_char_template) EXCEPT !.editing_char = new_char_template]

\* lines 213-215
SaveAndSelect(S, new_char_template) ==
    [save_character(S, new_char_template) EXCEPT
        !.current_char_id = new_char_template.doc_id,
        !.editing_char = new_char_template]

\* lines 202-216: the session after the handler
NewCharacterHandler(S, characters_list, uuid) ==
    SaveAndSelect(S, NamedTemplate(characters_list, uuid))

\* lines 225-232: the first of the remaining characters is selected
SelectRemaining(deleted) ==
    IF load_characters(deleted) # <<>>
    THEN [deleted EXCEPT
             !.current_char_id = load_characters(deleted)[1].doc_id,
             !.editing_char = load_characters(deleted)[1]]
    ELSE [deleted EXCEPT !.current_char_id = NoId, !.editing_char = Absent]

\* lines 221-233: the session after the handler, and whether st.rerun() was
\* called
DeleteHandler(S) ==
    IF /\ DictGet(S.editing_char, "doc_id", NoId) # NoId
       /\ DictGet(S.editing_char, "doc_id", NoId) \in KeysOf(S.characters_data)
    THEN [ S |-> SelectRemaining(delete_character(S, S.editing_char.doc_id)),
           rerun |-> TRUE ]
    ELSE [S |-> S, rerun |-> FALSE]

\* line 255: the name the form writes into `char`
Written(char, typed) ==
    [char EXCEPT !.name = IF typed = {} THEN @ ELSE CHOOSE n \in typed : TRUE]

\* lines 240-429: the form.  `char` is the object in editing_char when the
\* form starts: the form writes into it (line 255).  The top button saves it
\* as the runs before left it, and the session then holds a new copy, so
\* what this run writes into `char` is not in the session; the bottom button
\* saves `char` as this run wrote it.
FormPart(S, click, typed) ==
    IF ~Truthy(S.editing_char) THEN S
    ELSE IF click = "save_top" THEN save_character(S, S.editing_char)
    ELSE IF click = "save_bottom"
    THEN save_character(S, Written(S.editing_char, typed))
    ELSE [S EXCEPT !.editing_char = Written(@, typed)]

\* lines 219-433 after a deletion that did not end the run
AfterDeletion(deletion, click, typed) ==
    IF deletion.rerun
    THEN [S |-> deletion.S, rerun |-> TRUE, created |-> FALSE]
    ELSE [S |-> FormPart(deletion.S, click, typed), rerun |-> FALSE, created |-> FALSE]

\* lines 200-433 after the selection
AfterSelection(selection, characters_list, click, typed, uuid) ==
    IF selection.rerun
    THEN [S |-> selection.S, rerun |-> TRUE, created |-> FALSE]
    ELSE IF click = "new"
    THEN [ S |-> NewCharacterHandler(selection.S, characters_list, uuid),
           rerun |-> TRUE, created |-> TRUE ]
    ELSE AfterDeletion(
             IF click = "delete" /\ Truthy(selection.S.editing_char)
             THEN DeleteHandler(selection.S)
             ELSE [S |-> selection.S, rerun |-> FALSE],
             click, typed)

\* one run of the script (lines 157-433): the session after it, whether it
\* ended in st.rerun(), and whether it drew a uuid
ScriptRun(S, box, click, typed, uuid) ==
    AfterSelection(SelectionLogic(S, box), load_characters(S), click, typed, uuid)

\* what the Select Character box returns in a run in which the user did not
\* use it: the option at `index`, or the option at the position it returned
\* in the run before (the box keeps its value while Streamlit takes it for
\* the same widget)
BoxValues ==
    LET names == character_names_in_order(characters_data)
    IN  {current_selection_index(Session)}
            \cup (IF dropdown \in 1..Len(names) THEN {dropdown} ELSE {})

\* a run of the script, with `picked` the doc_id of the entry the user chose
SheetRun(box, click, typed, picked) ==
    \E out \in {ScriptRun(Session, box, click, typed, next_id)} :
        /\ characters_data' = out.S.characters_data
        /\ current_char_id' = out.S.current_char_id
        /\ editing_char' = out.S.editing_char
        /\ dropdown' = box
        /\ sheet_pc' = IF out.rerun THEN "rerun" ELSE "idle"
        /\ next_id' = IF out.created THEN next_id + 1 ELSE next_id
        /\ chosen' = picked
        /\ UNCHANGED <<rulebookVars, statVars, chatVars, save_arg>>

\* the names typed in the Character Name field
NameInputs ==
    {default_name_base, default_name_base \o <<" ", "1">>, <<"B">>}

\* the user chooses another entry of the Select Character box
SelectCharacter ==
    /\ sheet_pc = "idle"
    /\ \E k \in 1..Len(characters_data) :
          /\ k # dropdown
          /\ SheetRun(k, "none", {}, sorted_char_ids(characters_data)[k])

\* the user clicks New Character
NewCharacter ==
    /\ sheet_pc = "idle"
    /\ next_id <= MaxCreated
    /\ \E box \in BoxValues : SheetRun(box, "new", {}, NoId)

\* the user clicks Delete Current, shown while a character is edited
DeleteCurrent ==
    /\ sheet_pc = "idle"
    /\ Truthy(editing_char)
    /\ \E box \in BoxValues : SheetRun(box, "delete", {}, NoId)

\* the user clicks Save Character Changes, above the form
SaveCharacterChanges ==
    /\ sheet_pc = "idle"
    /\ Truthy(editing_char)
    /\ \E box \in BoxValues : SheetRun(box, "save_top", {}, NoId)

\* the user clicks Save All Changes to This Character, below the form
SaveAllChanges ==
    /\ sheet_pc = "idle"
    /\ Truthy(editing_char)
    /\ \E box \in BoxValues : SheetRun(box, "save_bottom", {}, NoId)

\* the user types a name in the Character Name field
EditName ==
    /\ Truthy(editing_char)
    /\ \E n \in NameInputs \ {editing_char.name} :
          \E box \in BoxValues : SheetRun(box, "none", {n}, NoId)

\* the run that st.rerun() asked for
RerunSheet ==
    /\ sheet_pc = "rerun"
    /\ \E box \in BoxValues : SheetRun(box, "none", {}, NoId)

InitSheet ==
    /\ remote = Truncated(CatalogT)
    /\ RulebookStarted
    /\ OthersStarted

NextSheet ==
    \/ SelectCharacter
    \/ NewCharacter
    \/ DeleteCurrent
    \/ SaveCharacterChanges
    \/ SaveAllChanges
    \/ EditName
    \/ RerunSheet

SheetSpec == InitSheet /\ [][NextSheet]_vars

\* C25: at the end of every run of the sheet page current_char_id is None or
\* a key of characters_data, and editing_char, when it is not None, has a
\* doc_id that is a key of characters_data and equals current_char_id.
C25_SelectionConsistent ==
    /\ current_char_id = NoId \/ current_char_id \in KeysOf(characters_data)
    /\ editing_char # Absent =>
          /\ editing_char.doc_id \in KeysOf(characters_data)
          /\ editing_char.doc_id = current_char_id

\* C25 witness: after a deletion the page edits another stored character,
\* with two characters created and a name typed before.
C25_Witness ==
    /\ sheet_pc = "idle"
    /\ next_id = MaxCreated + 1
    /\ Len(characters_data) = 2
    /\ editing_char # Absent
    /\ editing_char.doc_id = characters_data[2].doc_id
    /\ editing_char.name # characters_data[2].name

\* C26 as stated: after a run in which the user chose an entry of the Select
\* Character box, editing_char is the stored record of the character of that
\* entry.
C26_SelectLoadsChosen ==
    chosen # NoId => editing_char = Lookup(characters_data, chosen)

\* what does hold: the run leaves in editing_char the record it had, or the
\* stored record of the first character that has the name of the entry
SelectLoadsFirstOfName ==
    chosen # NoId =>
        LET names == character_names_in_order(characters_data)
            ids == sorted_char_ids(characters_data)
            first == ids[IndexOf(names, Lookup(characters_data, chosen).name)]
        IN  \/ editing_char = Lookup(characters_data, first)
            \/ editing_char.name = Lookup(characters_data, chosen).name

\* the case of C26 with two stored characters of one name
TwoOfOneNameChosen ==
    /\ chosen # NoId
    /\ \E k \in 1..Len(characters_data) :
          /\ characters_data[k].doc_id # chosen
          /\ characters_data[k].name = Lookup(characters_data, chosen).name
    /\ editing_char.doc_id # chosen

(***************************************************************************)
(* save_character called on its own: the store and the argument are drawn. *)
(***************************************************************************)
\* the names of the stored characters drawn
StoredNames == {default_name_base, <<"B">>}

\* a stored record: the template's keys, the given doc_id and name
StoredRecord(uuid, n) == [get_character_template(uuid) EXCEPT !.name = n]

\* the stores drawn: none, one or two characters, in either insertion order
Stores ==
    {<<>>}
        \cup {<<StoredRecord(1, n)>> : n \in StoredNames}
        \cup {<<StoredRecord(1, n), StoredRecord(2, m)>> : n \in StoredNames, m \in StoredNames}
        \cup {<<StoredRecord(2, n), StoredRecord(1, m)>> : n \in StoredNames, m \in StoredNames}

\* the arguments drawn: None, {}, a dict without doc_id, a dict of doc_id
\* only, a dict with a key the template lacks, and whole records
SaveInputs ==
    {Absent, EmptyDict, [name |-> <<"B">>]}
        \cup {[doc_id |-> uuid] : uuid \in 1..MaxCreated}
        \cup {[doc_id |-> uuid, name |-> <<"B">>, familiar |-> <<"a">>] :
                 uuid \in 1..MaxCreated}
        \cup {[StoredRecord(uuid, n) EXCEPT !.strength = 15] :
                 uuid \in 1..MaxCreated, n \in StoredNames}

\* lines 89-104: one call of save_character
SaveCall ==
    \E character_data \in SaveInputs :
        \E out \in {save_character(Session, character_data)} :
            /\ save_arg' = character_data
            /\ characters_data' = out.characters_data
            /\ current_char_id' = out.current_char_id
            /\ editing_char' = out.editing_char
            /\ UNCHANGED <<rulebookVars, statVars, chatVars, dropdown, sheet_pc,
                           next_id, chosen>>

InitSave ==
    /\ remote = Truncated(CatalogT)
    /\ RulebookStarted
    /\ StatsStarted
    /\ ChatStarted
    /\ model = "None"
    /\ characters_data \in Stores
    /\ editing_char \in {Absent} \cup {characters_data[k] : k \in 1..Len(characters_data)}
    /\ current_char_id = DictGet(editing_char, "doc_id", NoId)
    /\ dropdown = 0
    /\ sheet_pc = "idle"
    /\ next_id = MaxCreated + 1
    /\ chosen = NoId
    /\ save_arg = Absent

NextSave == SaveCall

SaveSpec == InitSave /\ [][NextSave]_vars

\* C27: a call of save_character with data that has a doc_id changes, in
\* characters_data, the record of that doc_id only; that record then has the
\* key set of the template and the given doc_id.  A call with None, with {}
\* or with data without doc_id changes neither characters_data nor
\* editing_char.
C27_SaveFrame ==
    [][IF ~Truthy(save_arg') \/ "doc_id" \notin DOMAIN save_arg'
       THEN characters_data' = characters_data /\ editing_char' = editing_char
       ELSE /\ \A uuid \in KeysOf(characters_data) \ {save_arg'.doc_id} :
                  Lookup(characters_data', uuid) = Lookup(characters_data, uuid)
            /\ KeysOf(characters_data') = KeysOf(characters_data) \cup {save_arg'.doc_id}
            /\ Len(characters_data') = Cardinality(KeysOf(characters_data'))
            /\ DOMAIN Lookup(characters_data', save_arg'.doc_id)
                  = DOMAIN get_character_template(NoId)
            /\ Lookup(characters_data', save_arg'.doc_id).doc_id = save_arg'.doc_id]_vars

\* C27 witness: a dict with a key the template lacks and without most of its
\* keys has been saved over a stored record, beside another stored record.
C27_Witness ==
    /\ DOMAIN save_arg = {"doc_id", "name", "familiar"}
    /\ Len(characters_data) = 2
    /\ characters_data[1].doc_id = save_arg.doc_id
    /\ characters_data[1].name = <<"B">>
    /\ characters_data[1].strength = 10
    /\ characters_data[2].name = default_name_base
    /\ editing_char = characters_data[1]

\* the other case of C27: a call with data without doc_id has returned, with
\* characters stored and one of them edited
C27_InvalidCallReached ==
    /\ DOMAIN save_arg = {"name"}
    /\ Len(characters_data) = 2
    /\ editing_char = characters_data[2]

(***************************************************************************)
(* The chat page (src/dm_compendium.py).  A message is a record of role    *)
(* and content; the content is a word for the text.  A run of the script   *)
(* is one step.                                                            *)
(***************************************************************************)
\* Longest history the model follows.
MaxMessages == 5

\* what the user submits in st.chat_input
Prompts == {"tell", "more"}

\* how the call of line 132 and the reads of the response can end:
\* generate_content raises; the response has parts and a text; it has parts
\* and reading its text raises; it has no parts and a text; it has no parts
\* and reading its text raises; it has neither and a block reason; it has
\* none of them
ApiOutcomes ==
    {"raises", "parts", "parts_text_raises", "text", "text_raises", "blocked", "nothing"}

\* the outcomes in which the try block of lines 123-148 raises
ApiRaises == {"raises", "parts_text_raises", "text_raises"}

\* lines 133-144: ai_response_text
ai_response_text(outcome) ==
    CASE outcome \in {"parts", "text"} -> "response text"
      [] outcome = "blocked" -> "sorry, blocked"
      [] outcome = "nothing" -> "pondering"

\* mutant: the handler reports the error and appends nothing
ExceptHandler_NoMessage(history) == history

\* lines 150-154
ExceptHandler(history) ==
    Append(history, [role |-> "assistant", content |-> "sorry, an error occurred"])

\* lines 122-156, with the user message appended already
Respond(history, outcome) ==
    IF model # "None"
    THEN IF outcome \in ApiRaises
         THEN ExceptHandler(history)
         ELSE Append(history, [role |-> "assistant", content |-> ai_response_text(outcome)])
    ELSE history

\* lines 115-156: the user submits a prompt
SubmitPrompt ==
    /\ Len(messages) + 2 <= MaxMessages
    /\ \E user_prompt \in Prompts, outcome \in ApiOutcomes :
          messages' =
              Respond(Append(messages, [role |-> "user", content |-> user_prompt]), outcome)
    /\ chat_event' = "prompt"
    /\ UNCHANGED <<rulebookVars, sheetVars, statVars, model>>

\* lines 160-162: the user clicks New Story/Topic
NewStory ==
    /\ messages' = <<FreshParchment>>
    /\ chat_event' = "new_story"
    /\ UNCHANGED <<rulebookVars, sheetVars, statVars, model>>

\* lines 92-102: the model is None unless a key is configured and the model
\* object could be made
InitChat ==
    /\ remote = Truncated(CatalogT)
    /\ RulebookStarted
    /\ SheetStarted
    /\ StatsStarted
    /\ ChatStarted
    /\ model \in {"None", "GenerativeModel"}

NextChat == SubmitPrompt \/ NewStory

ChatSpec == InitChat /\ [][NextChat]_vars

\* C28: the history is never empty and starts with an assistant message;
\* with the model initialised a prompt appends one user message and then one
\* assistant message, whatever the API call does, so that the roles
\* alternate; New Story/Topic leaves exactly one assistant message.
C28_ChatHistory ==
    /\ [](/\ messages # <<>>
          /\ messages[1].role = "assistant"
          /\ model # "None" =>
                \A k \in 1..(Len(messages) - 1) : messages[k].role # messages[k + 1].role)
    /\ [][/\ (chat_event' = "prompt" /\ model # "None") =>
                /\ Len(messages') = Len(messages) + 2
                /\ SubSeq(messages', 1, Len(messages)) = messages
                /\ messages'[Len(messages) + 1].role = "user"
                /\ messages'[Len(messages) + 2].role = "assistant"
          /\ chat_event' = "new_story" =>
                /\ Len(messages') = 1
                /\ messages'[1].role = "assistant"]_vars

\* C28 witness: with the model initialised, after a New Story/Topic click,
\* two prompts have been answered, the second by the message of the
\* exception handler.
C28_Witness ==
    /\ model # "None"
    /\ chat_event = "prompt"
    /\ Len(messages) = 5
    /\ messages[1] = FreshParchment
    /\ messages[4].role = "user"
    /\ messages[5] = [role |-> "assistant", content |-> "sorry, an error occurred"]

\* without a model a prompt is appended and not answered
UnansweredPromptReached ==
    /\ model = "None"
    /\ Len(messages) = 3
    /\ messages[2].role = "user"
    /\ messages[3].role = "user"

====
